---- MODULE Spec2Model ----
(***************************************************************************)
(* Streaming pipeline orchestrator of xiaoyi-Energy:                       *)
(*   backend/app/core/streaming_task_processor.py  (StreamingTaskProcessor)*)
(*   backend/app/core/session.py                   (Session store)         *)
(*   backend/app/api/v2/endpoints/unified_analysis.py (create/status/del)  *)
(*                                                                         *)
(* The store is modelled at the granularity of Redis commands: GET, SETEX  *)
(* and DEL are atomic, a mutator of session.py is a GET followed by a      *)
(* SETEX with nothing in between that excludes other clients.  The         *)
(* orchestrator's `message` handle is modelled with the store methods of   *)
(* session.py of the same name, on the record of the task id.              *)
(***************************************************************************)
EXTENDS Integers, Sequences, FiniteSets, TLC

\* ---------------------------------------------------------------- bounds
MaxRuns == 2            \* orchestrator executions per session id
MaxStoreFailures == 1   \* Redis publish/xadd failures injected per behaviour
MaxChunks == 1          \* streamed increments per blocking worker
MaxStepArg == 3         \* largest step number passed to update_step_detail
MaxLen == 6             \* length of the short series given to detect_change_points
MaxVal == 2             \* values of the short series: 0..MaxVal
MaxZoneLen == 3         \* length of the series of a forecast task's zone block
MaxZoneTasks == 2       \* forecast tasks that run the zone block
MaxPoints == 7          \* change points handed to the enrichment
MaxScoreLen == 6        \* length of the short score series given to adaptive_clustering
MaxLongLen == 12        \* length of the long score series (10 or more valid scores)
MaxZoneDays == 3        \* values of max_zone_days: 1..MaxZoneDays
MaxClose == 3           \* values of the close series of generate_zones: 1..MaxClose
MaxCloseLen == 4        \* length of the close series of generate_zones
ZoneTicksPerWindow == 2  \* clock steps in the 12 hours of a cache entry
MaxWindow == 2          \* window sizes used with the short series: 1..MaxWindow
MaxLevel == 2           \* levels L of the 40-point level-shift series: 2, 4, ..
MaxRows == 12           \* rows of power_df given to analyze_factors_influence
MaxMessages == 22       \* add_conversation_message calls on one session
TicksPerWindow == 4     \* clock steps in one retention window of 24 hours

\* ------------------------------------------------------- program constants
StreamMaxLen == 1000    \* xadd(..., maxlen=1000, approximate=True)
HistoryLimit == 20      \* conversation_history[-20:]
SessionTTL == 86400     \* self.ttl = 86400 (session.py line 36)
MinRows == 10           \* len(merged_df) < 10 (influence_analyzer.py line 89)

Runs == 1..MaxRuns

VARIABLES
    store,      \* value under key session:<id>  (exists = FALSE: no key)
    queue,      \* queue[r]: events put on the run's asyncio event_queue
    pubsub,     \* pubsub[r]: payloads published on channel stream:<id>
    log,        \* log[r]: entries of the Redis stream stream-events:<id>
    todo,       \* todo[r]: the statements run r has still to execute
    phase,      \* phase[r]: "get" before a mutator's GET, "save" before its SETEX
    rd,         \* rd[r]: the AnalysisSession a mutator of run r has read
    sc,         \* sc[r]: outcomes of the external calls of run r
    failures,   \* storage failures injected so far
    deleted,    \* delete_analysis_session has returned 200
    response,   \* HTTP status of the last get_analysis_status
    api,        \* position of the create_analysis_task handler reusing the id
    apiRd,      \* the AnalysisSession that handler's mutator has read
    started,    \* number of orchestrator executions scheduled
    concl,      \* concl[r]: data.conclusion read by run r at message.get()
    call,       \* a call of an analysis function: its arguments and result
    tasks,      \* tasks[r]: state of the news and RAG tasks run r created
    zone_cache, \* zone_cache[c]: the Redis value of power_zones_v3:{c}
    zone_task,  \* zone_task[t]: the anomaly-zone block of forecast task t
    enrich      \* the change-point enrichment: the semaphore and each sem_task

vars == <<store, queue, pubsub, log, todo, phase, rd, sc, failures, deleted,
          response, api, apiRd, started, concl, call, tasks, zone_cache, zone_task,
          enrich>>

\* ------------------------------------------------------------ data model
\* AnalysisSession (schemas/session_schema.py), stream_status added by
\* _update_stream_status.  exists = FALSE stands for "no key" / None.
NoSession ==
    [exists |-> FALSE, session_id |-> "none", status |-> "pending", steps |-> 0,
     intent |-> "pending", total_steps |-> 0, step_details |-> << >>,
     time_series_original |-> << >>, time_series_full |-> << >>,
     prediction_done |-> FALSE, news_list |-> << >>, report_list |-> << >>,
     rag_sources |-> << >>, emotion |-> "None", conclusion |-> "",
     conversation_history |-> << >>, error_message |-> "None",
     stream_status |-> "None",
     ttl |-> 0]              \* seconds the key has left to live

NewSession == [NoSession EXCEPT !.exists = TRUE, !.session_id = "sid"]

\* ----------------------------------------------------- step_definitions.py
\* The four templates (lines 10-36).  Names, in the order of the source:
\*   FORECAST_STEPS  数据获取与预处理, 新闻获取与情绪分析, 时序特征分析,
\*                   参数智能推荐, 模型训练与预测, 结果可视化, 报告生成
\*   RAG_STEPS       研报检索, 生成回答
\*   NEWS_STEPS      新闻搜索, 新闻总结
\*   CHAT_STEPS      生成回答
\* Equal names of the source are equal strings here ("answer", and "report",
\* which is also the step_name of the orchestrator's step 6).
FORECAST_STEPS ==
    << [id |-> "1", name |-> "data_fetch_and_preprocessing"],
       [id |-> "2", name |-> "news_and_sentiment"],
       [id |-> "3", name |-> "time_series_features"],
       [id |-> "4", name |-> "parameter_recommendation"],
       [id |-> "5", name |-> "model_training_and_forecast"],
       [id |-> "6", name |-> "result_visualisation"],
       [id |-> "7", name |-> "report"] >>

RAG_STEPS ==
    << [id |-> "1", name |-> "report_retrieval"],
       [id |-> "2", name |-> "answer"] >>

NEWS_STEPS ==
    << [id |-> "1", name |-> "news_search"],
       [id |-> "2", name |-> "news_summary"] >>

CHAT_STEPS == << [id |-> "1", name |-> "answer"] >>

\* get_steps_for_intent: mapping.get(intent, CHAT_STEPS)
get_steps_for_intent(intent) ==
    CASE intent = "forecast" -> FORECAST_STEPS
      [] intent = "rag" -> RAG_STEPS
      [] intent = "news" -> NEWS_STEPS
      [] OTHER -> CHAT_STEPS

\* get_step_count: len(get_steps_for_intent(intent))
get_step_count(intent) == Len(get_steps_for_intent(intent))

\* ------------------------------------------------------------- session.py
\* Each operator is the assignment part of the method of the same name, i.e.
\* what the method does to `data` between self.get() and self._save(data).

\* a write that leaves the key's time to live as it is
save_keeps_ttl(data) == data

\* Session._save (lines 74-84): SETEX key self.ttl json
save(data) == [data EXCEPT !.ttl = SessionTTL]

update_step(data, step) ==
    [data EXCEPT !.steps = step, !.status = "processing"]

save_time_series_original(data, points) ==
    [data EXCEPT !.time_series_original = points]

save_time_series_full(data, points) ==
    [data EXCEPT !.time_series_full = points, !.prediction_done = TRUE]

save_news(data, news) == [data EXCEPT !.news_list = news]

save_emotion(data, score) == [data EXCEPT !.emotion = score]

save_conclusion(data, conclusion) == [data EXCEPT !.conclusion = conclusion]

mark_completed(data) == [data EXCEPT !.status = "completed", !.steps = 7]

mark_error(data, error_message) ==
    [data EXCEPT !.status = "error", !.error_message = error_message]

\* save_intent_result that installs the chat template whatever the intent
save_intent_result_chat_only(data, intent) ==
    LET steps == CHAT_STEPS
    IN  [data EXCEPT !.intent = intent,
                     !.total_steps = Len(steps),
                     !.step_details =
                        [i \in DOMAIN steps |->
                            [id |-> steps[i].id, name |-> steps[i].name,
                             status |-> "pending"]]]

save_intent_result(data, intent) ==
    LET steps == get_steps_for_intent(intent)
    IN  [data EXCEPT !.intent = intent,
                     !.total_steps = Len(steps),
                     !.step_details =
                        [i \in DOMAIN steps |->
                            [id |-> steps[i].id, name |-> steps[i].name,
                             status |-> "pending"]]]

\* the guard `0 < step <= len(data.step_details)` of update_step_detail
update_step_detail_guard(data, step) ==
    0 < step /\ step <= Len(data.step_details)

update_step_detail(data, step, status) ==
    [data EXCEPT !.steps = step, !.status = "processing",
                 !.step_details = [@ EXCEPT ![step].status = status]]

save_rag_sources(data, sources) == [data EXCEPT !.rag_sources = sources]

\* history[-20:]
LastN(s, n) == IF Len(s) > n THEN SubSeq(s, Len(s) - n + 1, Len(s)) ELSE s

\* add_conversation_message without the cut to the last 20 messages
add_conversation_message_unbounded(data, role, content) ==
    [data EXCEPT !.conversation_history =
        Append(@, [role |-> role, content |-> content])]

add_conversation_message(data, role, content) ==
    [data EXCEPT !.conversation_history =
        LastN(Append(@, [role |-> role, content |-> content]), HistoryLimit)]

\* reset_for_new_query without the line `data.rag_sources = []`
reset_for_new_query_keeps_rag(data) ==
    [data EXCEPT !.status = "pending", !.steps = 0, !.intent = "pending",
                 !.total_steps = 0, !.step_details = << >>,
                 !.time_series_original = << >>, !.time_series_full = << >>,
                 !.prediction_done = FALSE, !.news_list = << >>,
                 !.emotion = "None",
                 !.conclusion = "", !.error_message = "None"]

reset_for_new_query(data) ==
    [data EXCEPT !.status = "pending", !.steps = 0, !.intent = "pending",
                 !.total_steps = 0, !.step_details = << >>,
                 !.time_series_original = << >>, !.time_series_full = << >>,
                 !.prediction_done = FALSE, !.news_list = << >>,
                 !.rag_sources = << >>, !.emotion = "None",
                 !.conclusion = "", !.error_message = "None"]

mark_completed_v2(data) ==
    [data EXCEPT !.status = "completed", !.steps = data.total_steps,
                 !.step_details = [i \in DOMAIN @ |->
                                     IF @[i].status # "error"
                                     THEN [@[i] EXCEPT !.status = "completed"]
                                     ELSE @[i]]]

\* StreamingTaskProcessor._update_stream_status
update_stream_status(data, status) == [data EXCEPT !.stream_status = status]

\* Dispatch of a mutator call  m(step, v)  of the orchestrator or the API.
\* "save_other" stands for the message.save_* calls whose target field is not
\* a field of AnalysisSession (anomaly zones, influence, model selection,
\* change points, keywords, thinking log): a GET and a SETEX of the record.
MutGuard(m, data, step) ==
    /\ data.exists
    /\ (m = "update_step_detail" => update_step_detail_guard(data, step))

MutApply(m, data, step, v) ==
    CASE m = "update_stream_status" -> update_stream_status(data, v)
      [] m = "update_step_detail" -> update_step_detail(data, step, v)
      [] m = "save_intent_result" -> save_intent_result(data, v)
      [] m = "save_conclusion" -> save_conclusion(data, v)
      [] m = "mark_completed" -> mark_completed(data)
      [] m = "mark_error" -> mark_error(data, v)
      [] m = "save_time_series_original" -> save_time_series_original(data, <<v>>)
      [] m = "save_time_series_full" -> save_time_series_full(data, <<"orig", v>>)
      [] m = "save_news" -> save_news(data, IF v = "" THEN << >> ELSE <<v>>)
      [] m = "save_rag_sources" -> save_rag_sources(data, <<v>>)
      [] m = "save_emotion" -> save_emotion(data, v)
      [] m = "add_conversation_message" -> add_conversation_message(data, "assistant", v)
      [] m = "reset_for_new_query" -> reset_for_new_query(data)
      [] m = "mark_completed_v2" -> mark_completed_v2(data)
      [] OTHER -> data

\* ----------------------------------------------------------------- events
\* An event dict: type, step (0 when it has none), v (message / data_type /
\* intent), n (number of increments accumulated in a streamed content),
\* data ("num" | "nan" | "null" | "none": the numeric payload, if any).
Ev(type, step, v, n, data) ==
    [type |-> type, step |-> step, v |-> v, n |-> n, data |-> data]

\* _clean_nan_values: NaN / inf floats become None
clean_nan_values(ev) == IF ev.data = "nan" THEN [ev EXCEPT !.data = "null"] ELSE ev

\* json.dumps(event_clean, ensure_ascii=False): the JSON text, as the tuple of
\* the members' values; NaN would be written as the non-JSON token NaN
json_dumps(ev) == <<ev.type, ev.step, ev.v, ev.n, ev.data>>

\* json.loads of a stream entry's "data" field, as a resuming client does
json_loads(txt) == Ev(txt[1], txt[2], txt[3], txt[4], txt[5])

\* xadd(stream_key, {"data": payload}, maxlen=1000, approximate=True): the
\* entry is appended; once the length exceeds maxlen Redis may or may not have
\* evicted the oldest entries down to maxlen.
xadd(entries, payload) ==
    LET l == Append(entries, [data |-> payload]) IN
    IF Len(l) > StreamMaxLen THEN {l, LastN(l, StreamMaxLen)} ELSE {l}

\* What a client that resumes from the beginning of the stream reads
Replay(entries) == [i \in DOMAIN entries |-> json_loads(entries[i].data)]

\* ------------------------------------------------ inputs of one execution
\* Outcomes of the external collaborators of one execute_streaming run.
\*   intent : "none" (recognize_intent returns no intent) | "forecast" | "chat"
\*   scope  : intent.is_in_scope
\*   region : "absent" (no region_mention) | "matched" | "unmatched"
\*   power  : outcome of fetch_power_data
\*   opt    : the optional sources (news, RAG, zones, change points) deliver
\*   optfail: which of the optional fetches of step 3 raises (a client
\*            timeout included): "none" | "news" | "rag" | "both"
\*   exc    : the await at which an unexpected exception is raised, if any
\*   chunks : increments streamed by each blocking worker
\*   nan    : the fetched series holds a NaN value
Scenarios ==
    { [intent |-> i, scope |-> s, region |-> g, power |-> p, opt |-> o,
       optfail |-> f, exc |-> x, chunks |-> c, nan |-> n, stall |-> w] :
        i \in {"none", "forecast", "chat"}, s \in BOOLEAN,
        g \in {"absent", "matched", "unmatched"},
        p \in {"ok", "DataFetchError", "Exception", "empty"},
        o \in BOOLEAN, f \in {"none", "news", "rag", "both"},
        x \in {"none", "intent", "rag_check", "analysis", "forecast", "report",
              "chat"},
        c \in 0..MaxChunks, n \in BOOLEAN, w \in BOOLEAN }

\* A scenario is kept only if every outcome it fixes is consulted by the run.
Consulted(x) ==
    LET dflt == /\ x.power = "ok" /\ ~x.opt /\ ~x.nan /\ x.optfail = "none"
                /\ ~x.stall
        stalls == x.stall => (/\ x.exc = "none" /\ x.chunks = MaxChunks
                              /\ ~x.nan /\ x.optfail = "none")
    IN
    CASE x.exc = "intent" ->
            x.intent = "none" /\ x.scope /\ x.region = "absent" /\ dflt
      [] x.intent = "none" ->
            x.scope /\ x.region = "absent" /\ dflt /\ x.exc = "none"
      [] ~x.scope -> x.region = "absent" /\ dflt /\ x.exc = "none"
      [] x.region = "unmatched" -> dflt /\ x.exc = "none"
      [] x.exc = "rag_check" ->
            /\ x.intent = "forecast" /\ x.power = "ok" /\ x.opt /\ ~x.nan
            /\ x.optfail = "none" /\ ~x.stall
      [] x.intent = "chat" ->
            /\ x.power = "ok" /\ ~x.nan /\ x.optfail = "none"
            /\ x.exc \in {"none", "chat"} /\ stalls
      [] x.power # "ok" ->
            /\ ~x.nan /\ x.optfail = "none" /\ x.exc = "none"
            /\ ~x.stall
      [] OTHER ->
            /\ x.exc \in {"none", "analysis", "forecast", "report"}
            /\ (x.optfail # "none" => x.opt)
            /\ stalls

Inputs == { x \in Scenarios : Consulted(x) }

\* ------------------------------------------------ statements of a run
\* op: "emit" (_emit_event), "mut" (a store mutator: GET then SETEX),
\*     "get" (a store read), "await" (an external call), ln: source line.
Emit(type, step, v, n, data, ln) ==
    [op |-> "emit", m |-> type, step |-> step, v |-> v, n |-> n,
     data |-> data, ln |-> ln]
Mut(m, step, v, ln) ==
    [op |-> "mut", m |-> m, step |-> step, v |-> v, n |-> 0,
     data |-> "none", ln |-> ln]
Get(m, ln) ==
    [op |-> "get", m |-> m, step |-> 0, v |-> "", n |-> 0,
     data |-> "none", ln |-> ln]
Await(m, ln) ==
    [op |-> "await", m |-> m, step |-> 0, v |-> "", n |-> 0,
     data |-> "none", ln |-> ln]
\* m(v) on the asyncio task v: create_task, await, cancel, or gather (v = "")
Task(m, v, ln) ==
    [op |-> "task", m |-> m, step |-> 0, v |-> v, n |-> 0,
     data |-> "none", ln |-> ln]

\* the increments of a blocking worker, relayed as events with the
\* accumulated content (thinking_content += chunk; full_content += data)
Chunks(type, k, ln) == [i \in 1..k |-> Emit(type, 0, "content", i, "none", ln)]

\* _emit_error / _emit_done
emit_error(msg, ln) == Emit("error", 0, msg, 0, "none", ln)
emit_done(ln) == Emit("done", 0, "completed", 0, "none", ln)

\* execute_streaming, `except Exception` (lines 310-314)
ExceptHandler ==
    << Mut("mark_error", 0, "exception", 312),
       Mut("update_stream_status", 0, "error", 313),
       emit_error("exception", 314) >>

\* execute_streaming, lines 299-308
Finish ==
    << Mut("mark_completed", 0, "", 300),
       Mut("update_stream_status", 0, "completed", 301),
       Get("message.get", 304),
       Mut("add_conversation_message", 0, "", 306),
       emit_done(308) >>

\* _step_intent_streaming (lines 318-375)
step_intent_streaming(x) ==
    IF x.exc = "intent" THEN << Await("recognize_intent_streaming", 344) >>
    ELSE << Await("recognize_intent_streaming", 344) >>
         \o Chunks("thinking", x.chunks, 354)

\* _step_report_streaming (lines 1294-1346) and _step_chat_streaming (lines
\* 1564-1609) read the worker's queue with wait_for(..., timeout=120.0).
\* x.stall: the worker is silent for more than 120 s before its first
\* increment.  The loop then ends on asyncio.TimeoutError (lines 1341, 1605),
\* `await future` waits for the worker to end, and full_content is still "":
\* what the worker queues after the timeout is never read.
worker_content(x, content) == IF x.stall THEN "" ELSE content

\* _step_report_streaming (lines 1294-1346)
step_report_streaming(x) ==
    IF x.exc = "report" \/ x.stall THEN << Await("generate_streaming", 1322) >>
    ELSE << Await("generate_streaming", 1322) >>
         \o Chunks("report_chunk", x.chunks, 1333)

\* _step_chat_streaming (lines 1564-1609)
step_chat_streaming(x) ==
    IF x.exc = "chat" \/ x.stall THEN << Await("chat_streaming", 1586) >>
    ELSE << Await("chat_streaming", 1586) >>
         \o Chunks("chat_chunk", x.chunks, 1597)

\* _execute_forecast_streaming, the three failure exits of the primary fetch
\* (lines 439-477); news_task / rag_task are cancelled, then the flow returns
rag_task_created(x) == x.opt

\* the failure exits without news_task.cancel() and rag_task.cancel()
FetchFailed_without_cancel(x, msg, ln) ==
    << Mut("save_conclusion", 0, msg, ln),
       Mut("update_step_detail", 3, "error", ln + 1),
       emit_error(msg, ln + 5) >>

FetchFailed(x, msg, ln) ==
    << Mut("save_conclusion", 0, msg, ln),
       Mut("update_step_detail", 3, "error", ln + 1),
       Task("cancel", "news", ln + 2) >>
    \o (IF rag_task_created(x) THEN << Task("cancel", "rag", ln + 4) >>
        ELSE << >>)
    \o << emit_error(msg, ln + 5) >>

\* asyncio.gather(*pending_tasks, return_exceptions=True) (line 498) with
\* return_exceptions dropped: the exception of a failed fetch is raised
gather_propagates(x) == x.optfail # "none"

\* asyncio.gather(*pending_tasks, return_exceptions=True) (line 498): an
\* exception of news_task or rag_task is returned as a result, never raised
gather_raises(x) == FALSE

\* lines 500-504 and 513-521: news_result is ([], {}) when news_task failed;
\* the summarized news, "" for the empty list
news_result(x) ==
    IF x.opt /\ x.optfail \notin {"news", "both"} THEN "news" ELSE ""

\* lines 505-511: rag_sources is [] when rag_task failed or was not started
rag_sources_result(x) ==
    IF x.opt /\ x.optfail \notin {"rag", "both"} THEN "rag" ELSE ""

\* _execute_forecast_streaming (lines 379-1164).  The second component says
\* whether the flow raised (the exception reaches execute_streaming).
execute_forecast_streaming(x) ==
    LET s3pre == << Emit("step_start", 3, "fetch", 0, "none", 396),
                    Mut("update_step_detail", 3, "running", 401),
                    Task("create_task", "power", 415),
                    Task("create_task", "news", 418) >>
        s3chk == << Await("check_rag_availability", 421) >>
        s3 == s3pre
              \o (IF rag_task_created(x)
                  THEN s3chk \o << Task("create_task", "rag", 423) >>
                  ELSE << >>)
              \o << Task("await", "power", 432) >>
        s3a ==
            << Mut("save_time_series_original", 0, "orig", 481),
               Emit("data", 0, "time_series_original", 0,
                    IF x.nan THEN "nan" ELSE "num", 483),
               Task("gather", "", 498) >>
        s3ok ==
            s3a
            \o << Mut("save_news", 0, news_result(x), 523) >>
            \o (IF news_result(x) # ""
                THEN << Emit("data", 0, "news", 0, "none", 527) >> ELSE << >>)
            \o (IF rag_sources_result(x) # ""
                THEN << Mut("save_rag_sources", 0, "rag", 538) >> ELSE << >>)
            \o (IF x.opt
                THEN << Mut("save_other", 0, "anomaly_zones", 786),
                        Emit("data", 0, "anomaly_zones", 0, "num", 788) >>
                ELSE << >>)
            \o << Emit("step_complete", 3, "", 0, "none", 805),
                  Mut("update_step_detail", 3, "completed", 814) >>
        s4a == << Emit("step_start", 4, "analysis", 0, "none", 819),
                  Mut("update_step_detail", 4, "running", 824),
                  Await("analyze_features", 827) >>
        s4b == (IF x.opt
                THEN << Mut("save_other", 0, "influence", 1443),
                        Emit("data", 0, "influence", 0, "num", 1449) >>
                ELSE << Emit("data", 0, "influence", 0, "num", 1366) >>)
               \o << Mut("save_emotion", 0, "score", 843),
                     Emit("step_complete", 4, "", 0, "none", 849),
                     Mut("update_step_detail", 4, "completed", 861) >>
        s5a == << Emit("step_start", 5, "forecast", 0, "none", 868),
                  Mut("update_step_detail", 5, "running", 873),
                  Emit("model_selection", 0, "historical_average", 0, "none", 898),
                  Mut("save_other", 0, "model_selection", 914),
                  Mut("save_other", 0, "model_selection_reason", 917),
                  Mut("update_step_detail", 5, "running", 919),
                  Await("run_forecast", 926) >>
        s5b == << Mut("save_time_series_full", 0, "pred", 935),
                  Emit("data", 0, "time_series_full", 0,
                       IF x.nan THEN "nan" ELSE "num", 937),
                  Emit("step_complete", 5, "", 0, "none", 955),
                  Mut("update_step_detail", 5, "completed", 960),
                  Mut("save_other", 0, "model_name", 963) >>
               \o (IF x.opt
                   THEN << Emit("data", 0, "change_points", 0, "num", 1116),
                           Mut("save_other", 0, "change_points", 1125) >>
                   ELSE << >>)
        s6a == << Emit("step_start", 6, "report", 0, "none", 1134),
                  Mut("update_step_detail", 6, "running", 1139) >>
               \o step_report_streaming(x)
        s6b == << Mut("save_conclusion", 0, worker_content(x, "report"), 1160),
                  Emit("step_complete", 6, "", 0, "none", 1161),
                  Mut("update_step_detail", 6, "completed", 1164) >>
    IN
    CASE x.exc = "rag_check" ->
            [code |-> s3pre \o s3chk, raised |-> TRUE]
      [] x.power = "DataFetchError" ->
            [code |-> s3 \o << Await("explain_data_fetch_error", 440) >>
                        \o FetchFailed(x, "fetch_failed", 443),
             raised |-> FALSE]
      [] x.power = "Exception" ->
            [code |-> s3 \o FetchFailed(x, "fetch_failed", 452), raised |-> FALSE]
      [] x.power = "empty" ->
            [code |-> s3 \o FetchFailed(x, "fetch_failed", 471), raised |-> FALSE]
      [] gather_raises(x) ->
            [code |-> s3 \o s3a, raised |-> TRUE]
      [] x.exc = "analysis" ->
            [code |-> s3 \o s3ok \o s4a, raised |-> TRUE]
      [] x.exc = "forecast" ->
            [code |-> s3 \o s3ok \o s4a \o s4b \o s5a, raised |-> TRUE]
      [] x.exc = "report" ->
            [code |-> s3 \o s3ok \o s4a \o s4b \o s5a \o s5b \o s6a,
             raised |-> TRUE]
      [] OTHER ->
            [code |-> s3 \o s3ok \o s4a \o s4b \o s5a \o s5b \o s6a \o s6b,
             raised |-> FALSE]

\* _execute_chat_streaming (lines 1168-1290)
execute_chat_streaming(x) ==
    LET k == IF x.region = "absent" THEN 2 ELSE 3
        a == << Emit("step_start", k, "info", 0, "none", 1185),
                Mut("update_step_detail", k, "running", 1190),
                Await("gather_sources", 1218),
                Emit("step_complete", k, "", 0, "none", 1224),
                Mut("update_step_detail", k, "completed", 1232),
                Emit("step_start", k + 1, "answer", 0, "none", 1238),
                Mut("update_step_detail", k + 1, "running", 1243) >>
             \o step_chat_streaming(x)
        b == << Mut("save_conclusion", 0, worker_content(x, "answer"), 1280) >>
             \o (IF x.opt THEN << Mut("save_rag_sources", 0, "rag", 1283) >>
                 ELSE << >>)
             \o << Emit("step_complete", k + 1, "", 0, "none", 1286),
                   Mut("update_step_detail", k + 1, "completed", 1290) >>
    IN IF x.exc = "chat" THEN [code |-> a, raised |-> TRUE]
       ELSE [code |-> a \o b, raised |-> FALSE]

\* execute_streaming (lines 102-314): the statements run r executes, in
\* order, under the outcomes x.
execute_streaming(x) ==
    LET kind == IF x.intent = "forecast" THEN "forecast" ELSE "chat"
        s1 == << Mut("update_stream_status", 0, "streaming", 124),
                 Get("get_conversation_history", 127),
                 Emit("step_start", 1, "intent", 0, "none", 130),
                 Mut("update_step_detail", 1, "running", 136) >>
              \o step_intent_streaming(x)
        s1ok == << Mut("save_intent_result", 0, kind, 158),
                   Mut("save_other", 0, "thinking_log", 159),
                   Emit("intent", 0, kind, 0, "none", 162) >>
        oos == << Mut("save_conclusion", 0, "out_of_scope", 179),
                  Mut("update_step_detail", 1, "completed", 180),
                  Mut("mark_completed", 0, "", 181),
                  Mut("update_stream_status", 0, "completed", 182),
                  Emit("chat_chunk", 0, "out_of_scope", 0, "none", 183),
                  emit_done(188) >>
        s1done == << Emit("step_complete", 1, "", 0, "none", 191),
                     Mut("update_step_detail", 1, "completed", 200) >>
        s2 == << Emit("step_start", 2, "region", 0, "none", 213),
                 Mut("update_step_detail", 2, "running", 222),
                 Await("region_matcher.match", 224) >>
        s2bad == << Mut("save_conclusion", 0, "region_not_found", 230),
                    Mut("update_step_detail", 2, "error", 231),
                    Mut("mark_completed", 0, "", 232),
                    Mut("update_stream_status", 0, "error", 233),
                    emit_error("region_not_found", 234) >>
        s2ok == << Mut("save_other", 0, "resolved_keywords", 243),
                   Emit("step_complete", 2, "", 0, "none", 245),
                   Mut("update_step_detail", 2, "completed", 261) >>
        flow == IF x.intent = "forecast" THEN execute_forecast_streaming(x)
                ELSE execute_chat_streaming(x)
    IN
    CASE x.exc = "intent" -> s1 \o ExceptHandler
      [] x.intent = "none" -> s1 \o << emit_error("intent_failed", 143) >>
      [] ~x.scope -> s1 \o s1ok \o oos
      [] x.region = "unmatched" -> s1 \o s1ok \o s1done \o s2 \o s2bad
      [] OTHER ->
            s1 \o s1ok \o s1done
            \o (IF x.region = "matched" THEN s2 \o s2ok ELSE << >>)
            \o flow.code
            \o (IF flow.raised THEN ExceptHandler ELSE Finish)

\* ------------------------------------------------------------ run state
Active(r) == todo[r] # << >>
Finished(r) == r <= started /\ todo[r] = << >>
Stmt(r) == Head(todo[r])

\* no call of an analysis function
NoCall == [fn |-> "none", args |-> << >>, ret |-> << >>, done |-> FALSE]

\* region_code of a forecast task (line 393): "" when no region was matched
Regions == {"", "R1"}

ZoneTasks == 1..MaxZoneTasks

\* no key power_zones_v3:* in Redis, no forecast task in the zone block
\* zones: the value ("" of Redis is << >>), ttl: clock steps the key has left,
\* age: clock steps since its zones were computed
NoZoneEntry == [zones |-> << >>, ttl |-> 0, age |-> 0]
NoZoneCache == [c \in Regions |-> NoZoneEntry]
NoZoneTasks ==
    [t \in ZoneTasks |->
        [pc |-> "idle", region_code |-> "", series |-> << >>,
         cached |-> << >>, age |-> 0, zones |-> << >>]]
\* asyncio.Semaphore(5) (line 1106), and no change point to enrich
EnrichLimit == 5
NoEnrich == [value |-> EnrichLimit, pc |-> << >>]

InitNoZones ==
    zone_cache = NoZoneCache /\ zone_task = NoZoneTasks /\ enrich = NoEnrich

\* no task created
NoTasks == [power |-> "none", news |-> "none", rag |-> "none"]

\* outcomes whose fields are all defaults, for executions not yet scheduled
NoInput ==
    [intent |-> "none", scope |-> TRUE, region |-> "absent", power |-> "ok",
     opt |-> FALSE, optfail |-> "none", exc |-> "none", chunks |-> 0,
     nan |-> FALSE, stall |-> FALSE]

\* ------------------------------------------------------------- _emit_event
\* StreamingTaskProcessor._emit_event (lines 1639-1665): put on the local
\* queue, then, inside one try block, publish and xadd; an exception of the
\* Redis client (or of json.dumps) is caught and printed.
\*   out = "ok"            both Redis commands succeed
\*   out = "publish_fails" the exception is raised before anything is stored
\*   out = "xadd_fails"    published, then xadd raises
emit_event(r, event, out) ==
    LET event_clean == clean_nan_values(event)
        json_payload == json_dumps(event_clean)
    IN  /\ queue' = [queue EXCEPT ![r] = Append(@, event_clean)]
        /\ pubsub' = [pubsub EXCEPT ![r] =
                        IF out = "publish_fails" THEN @ ELSE Append(@, json_payload)]
        /\ IF out = "ok"
           THEN \E l \in xadd(log[r], json_payload) : log' = [log EXCEPT ![r] = l]
           ELSE log' = log
        /\ failures' = IF out = "ok" THEN failures ELSE failures + 1

RunEmit(r) ==
    /\ Active(r) /\ Stmt(r).op = "emit"
    /\ emit_event(r, Ev(Stmt(r).m, Stmt(r).step, Stmt(r).v, Stmt(r).n,
                        Stmt(r).data), "ok")
    /\ todo' = [todo EXCEPT ![r] = Tail(@)]
    /\ UNCHANGED <<enrich, zone_cache, zone_task, tasks, call, store, phase, rd, sc, deleted, response, api, apiRd,
                   started, concl>>

\* _emit_event when the Redis client raises (lines 1652-1665, the except
\* branch): the event is already on the local queue
RunEmitFails(r) ==
    /\ Active(r) /\ Stmt(r).op = "emit"
    /\ failures < MaxStoreFailures
    /\ \E out \in {"publish_fails", "xadd_fails"} :
          emit_event(r, Ev(Stmt(r).m, Stmt(r).step, Stmt(r).v, Stmt(r).n,
                           Stmt(r).data), out)
    /\ todo' = [todo EXCEPT ![r] = Tail(@)]
    /\ UNCHANGED <<enrich, zone_cache, zone_task, tasks, call, store, phase, rd, sc, deleted, response, api, apiRd,
                   started, concl>>

\* an external call returns (or raises: the next statement is then the
\* first one of the except handler)
RunAwait(r) ==
    /\ Active(r) /\ Stmt(r).op = "await"
    /\ todo' = [todo EXCEPT ![r] = Tail(@)]
    /\ UNCHANGED <<enrich, zone_cache, zone_task, tasks, call, store, queue, pubsub, log, phase, rd, sc, failures, deleted,
                   response, api, apiRd, started, concl>>

\* asyncio.create_task (lines 415, 418, 423), `await power_data_task` (line
\* 432), Task.cancel (lines 445-447, 454-456,
\* 473-475) and the return of asyncio.gather (line 498) on the news and RAG
\* tasks of the execution
RunTask(r) ==
    /\ Active(r) /\ Stmt(r).op = "task"
    /\ tasks' = [tasks EXCEPT ![r] =
                    CASE Stmt(r).m = "create_task" ->
                            [@ EXCEPT ![Stmt(r).v] = "running"]
                      [] Stmt(r).m = "await" ->
                            [@ EXCEPT ![Stmt(r).v] = "done"]
                      [] Stmt(r).m = "cancel" ->
                            [@ EXCEPT ![Stmt(r).v] =
                                IF @ = "running" THEN "cancelled" ELSE @]
                      [] OTHER ->
                            [t \in DOMAIN @ |->
                                IF @[t] = "running" THEN "done" ELSE @[t]]]
    /\ todo' = [todo EXCEPT ![r] = Tail(@)]
    /\ UNCHANGED <<enrich, store, queue, pubsub, log, phase, rd, sc, failures, deleted,
                   response, api, apiRd, started, concl, call, zone_cache,
                   zone_task>>

\* Session.get (lines 67-72) as a plain read: get_conversation_history
\* (line 127) and `data = message.get()` (line 304)
RunGet(r) ==
    /\ Active(r) /\ Stmt(r).op = "get"
    /\ concl' = [concl EXCEPT ![r] =
                    IF Stmt(r).m = "message.get" /\ store.exists
                    THEN store.conclusion ELSE ""]
    /\ todo' = [todo EXCEPT ![r] = Tail(@)]
    /\ UNCHANGED <<enrich, zone_cache, zone_task, tasks, call, store, queue, pubsub, log, phase, rd, sc, failures, deleted,
                   response, api, apiRd, started>>

\* the caller's condition on a mutator call: line 305,
\* `if data and data.conclusion` before session.add_conversation_message
CallGuard(r) == Stmt(r).m = "add_conversation_message" => concl[r] # ""

\* first half of a mutator: data = self.get(); `if data` (and the
\* mutator's own guard) decides whether there is a second half
RunMutGet(r) ==
    /\ Active(r) /\ Stmt(r).op = "mut" /\ phase[r] = "get"
    /\ IF CallGuard(r) /\ MutGuard(Stmt(r).m, store, Stmt(r).step)
       THEN /\ rd' = [rd EXCEPT ![r] = store]
            /\ phase' = [phase EXCEPT ![r] = "save"]
            /\ todo' = todo
       ELSE /\ todo' = [todo EXCEPT ![r] = Tail(@)]
            /\ UNCHANGED <<rd, phase>>
    /\ UNCHANGED <<enrich, zone_cache, zone_task, tasks, call, store, queue, pubsub, log, sc, failures, deleted, response,
                   api, apiRd, started, concl>>

\* second half of a mutator: the assignments, then Session._save
\* (lines 74-84): SETEX key ttl json
RunMutSave(r) ==
    /\ Active(r) /\ Stmt(r).op = "mut" /\ phase[r] = "save"
    /\ store' = save(MutApply(Stmt(r).m, rd[r], Stmt(r).step,
                              IF Stmt(r).m = "add_conversation_message"
                              THEN concl[r] ELSE Stmt(r).v))
    /\ rd' = [rd EXCEPT ![r] = NoSession]
    /\ phase' = [phase EXCEPT ![r] = "get"]
    /\ todo' = [todo EXCEPT ![r] = Tail(@)]
    /\ UNCHANGED <<enrich, zone_cache, zone_task, tasks, call, queue, pubsub, log, sc, failures, deleted, response, api,
                   apiRd, started, concl>>

\* ------------------------------------------------------ unified_analysis.py
\* create_analysis_task without session_id (lines 60-77): Session.create,
\* add_conversation_message("user", ...), background_tasks.add_task.  The id
\* is a fresh uuid, so no other client can touch the key in between.
CreateNewOf(S) ==
    /\ started = 0 /\ ~store.exists /\ ~deleted
    /\ store' = save(add_conversation_message(save(NewSession), "user", "query"))
    /\ started' = 1
    /\ \E x \in S :
          /\ sc' = [sc EXCEPT ![1] = x]
          /\ todo' = [todo EXCEPT ![1] = execute_streaming(x)]
    /\ UNCHANGED <<enrich, zone_cache, zone_task, tasks, call, queue, pubsub, log, phase, rd, failures, deleted,
                   response, api, apiRd, concl>>

CreateNew == CreateNewOf(Inputs)

\* get_analysis_status (lines 85-107)
GetStatus ==
    /\ started > 0
    /\ response' = IF store.exists THEN "200" ELSE "404"
    /\ UNCHANGED <<enrich, zone_cache, zone_task, tasks, call, store, queue, pubsub, log, todo, phase, rd, sc, failures,
                   deleted, api, apiRd, started, concl>>

\* delete_analysis_session (lines 110-127): 404 unless Session.exists,
\* else Session.delete (lines 163-166): DEL key
DeleteSession ==
    /\ started > 0 /\ ~deleted
    /\ store.exists
    /\ store' = NoSession
    /\ deleted' = TRUE
    /\ UNCHANGED <<enrich, zone_cache, zone_task, tasks, call, queue, pubsub, log, todo, phase, rd, sc, failures, response,
                   api, apiRd, started, concl>>

\* create_analysis_task with the session_id of an existing session
\* (lines 55-82), one Redis command per step:
\*   line 56  Session.exists(request.session_id)
\*   line 59  reset_for_new_query: GET, then SETEX
\*   line 67  add_conversation_message("user", ...): GET, then SETEX
\*   line 71  background_tasks.add_task: the execution is scheduled
\* No step looks at the status of the session or at a running execution.
ApiExists ==
    /\ api = "idle" /\ started >= 1 /\ started < MaxRuns
    /\ store.exists
    /\ api' = "reset_get"
    /\ UNCHANGED <<enrich, zone_cache, zone_task, tasks, call, store, queue, pubsub, log, todo, phase, rd, sc, failures,
                   deleted, response, apiRd, started, concl>>

ApiMutGet(m) ==
    /\ api = m \o "_get"
    /\ IF store.exists
       THEN apiRd' = store /\ api' = m \o "_save"
       ELSE apiRd' = apiRd /\ api' = IF m = "reset" THEN "add_get" ELSE "add_task"
    /\ UNCHANGED <<enrich, zone_cache, zone_task, tasks, call, store, queue, pubsub, log, todo, phase, rd, sc, failures,
                   deleted, response, started, concl>>

ApiResetSave ==
    /\ api = "reset_save"
    /\ store' = save(reset_for_new_query(apiRd))
    /\ apiRd' = apiRd
    /\ api' = "add_get"
    /\ UNCHANGED <<enrich, zone_cache, zone_task, tasks, call, queue, pubsub, log, todo, phase, rd, sc, failures, deleted,
                   response, started, concl>>

ApiAddSave ==
    /\ api = "add_save"
    /\ store' = save(add_conversation_message(apiRd, "user", "query"))
    /\ apiRd' = NoSession
    /\ api' = "add_task"
    /\ UNCHANGED <<enrich, zone_cache, zone_task, tasks, call, queue, pubsub, log, todo, phase, rd, sc, failures, deleted,
                   response, started, concl>>

ApiAddTaskOf(S) ==
    /\ api = "add_task"
    /\ started' = started + 1
    /\ \E x \in S :
          /\ sc' = [sc EXCEPT ![started + 1] = x]
          /\ todo' = [todo EXCEPT ![started + 1] = execute_streaming(x)]
    /\ api' = "idle"
    /\ UNCHANGED <<enrich, zone_cache, zone_task, tasks, call, store, queue, pubsub, log, phase, rd, failures, deleted,
                   response, apiRd, concl>>

\* the handler's steps after the exists check
ApiSteps(S) ==
    \/ ApiMutGet("reset")
    \/ ApiResetSave
    \/ ApiMutGet("add")
    \/ ApiAddSave
    \/ ApiAddTaskOf(S)

\* ------------------------------------------------------------------ Spec
InitCommon ==
    /\ store = NoSession
    /\ queue = [r \in Runs |-> << >>]
    /\ pubsub = [r \in Runs |-> << >>]
    /\ log = [r \in Runs |-> << >>]
    /\ todo = [r \in Runs |-> << >>]
    /\ phase = [r \in Runs |-> "get"]
    /\ rd = [r \in Runs |-> NoSession]
    /\ failures = 0
    /\ deleted = FALSE
    /\ response = "none"
    /\ api = "idle"
    /\ apiRd = NoSession
    /\ started = 0
    /\ concl = [r \in Runs |-> ""]
    /\ call = NoCall

    /\ sc = [r \in Runs |-> NoInput]
    /\ tasks = [r \in Runs |-> NoTasks]
    /\ InitNoZones

Init == InitCommon

RunStep(r) ==
    \/ RunEmit(r)
    \/ RunAwait(r)
    \/ RunGet(r)
    \/ RunMutGet(r)
    \/ RunMutSave(r)
    \/ RunTask(r)

\* one execution, any outcomes of the external calls, and the status and
\* delete endpoints
Next ==
    \/ CreateNew
    \/ \E r \in Runs : RunStep(r)
    \/ GetStatus
    \/ DeleteSession

Spec == Init /\ [][Next]_vars

\* the execution is at an await of an external call: `await power_data_task`
\* (line 432), asyncio.gather(news_task, rag_task) (line 498), the forecaster,
\* `await future` of the classifier's and the narrator's worker thread (lines
\* 374, 1344, 1607).  None of them is wrapped in asyncio.wait_for; the 120 s
\* timeout of lines 1328 and 1592 only leaves the chunk loop, and the
\* `await future` that follows has no timeout
Waits(r) ==
    /\ Active(r)
    /\ \/ Stmt(r).op = "await"
       \/ Stmt(r).op = "task" /\ Stmt(r).m \in {"gather", "await"}

\* a step the event loop takes by itself
InternalStep(r) == ~Waits(r) /\ RunStep(r)

\* the event loop runs every execution that is ready; the return of an
\* external call is up to the callee
SpecLive == Init /\ [][Next]_vars /\ \A r \in Runs : WF_vars(InternalStep(r))

\* the same when every external call returns
SpecLiveReturning == Init /\ [][Next]_vars /\ \A r \in Runs : WF_vars(RunStep(r))

\* the same, with Redis commands of _emit_event that may fail
NextFaulty ==
    \/ Next
    \/ \E r \in Runs : RunEmitFails(r)

SpecFaulty == Init /\ [][NextFaulty]_vars

\* outcomes of the executions of follow-up queries: the short ones
LaterInputs ==
    { x \in Inputs : x.intent = "none" /\ x.exc = "none" /\ x.chunks = 0 }

\* multi-turn use: a follow-up query on the same session id is submitted
\* once the executions scheduled before it have finished
Quiescent == \A r \in Runs : ~Active(r)

NextFollowUp ==
    \/ Next
    \/ (Quiescent /\ ApiExists)
    \/ ApiSteps(LaterInputs)

SpecFollowUp == Init /\ [][NextFollowUp]_vars

\* a follow-up query submitted at any time, also while an execution is
\* running; the first execution is a forecast that fails after step 3
FirstInputs ==
    { x \in Inputs : /\ x.intent = "forecast" /\ x.region = "matched"
                     /\ x.power = "ok" /\ x.opt /\ ~x.nan /\ x.chunks = 0
                     /\ x.optfail = "none" /\ x.exc = "analysis" /\ ~x.stall }

NextMulti ==
    \/ CreateNewOf(FirstInputs)
    \/ \E r \in Runs : RunStep(r)
    \/ ApiExists
    \/ ApiSteps(LaterInputs)

SpecMulti == Init /\ [][NextMulti]_vars

\* ------------------------------------------------------------ SpecSession
\* The Session class by itself: one caller that, after Session.create, calls
\* the methods of session.py one at a time, in any order, with any arguments.
Intents == {"forecast", "rag", "news", "chat", "analyze"}

SessionOps ==
    { [m |-> "save_intent_result", step |-> 0, v |-> i] : i \in Intents }
    \cup { [m |-> "update_step_detail", step |-> k, v |-> st] :
             k \in 0..MaxStepArg, st \in {"running", "error"} }
    \cup { [m |-> "mark_completed_v2", step |-> 0, v |-> ""],
           [m |-> "mark_completed", step |-> 0, v |-> ""],
           [m |-> "mark_error", step |-> 0, v |-> "failed"],
           [m |-> "save_conclusion", step |-> 0, v |-> "text"],
           [m |-> "save_news", step |-> 0, v |-> "news"],
           [m |-> "reset_for_new_query", step |-> 0, v |-> ""] }

\* one method call: data = self.get(); if data (and the method's own
\* guard): the assignments, then self._save(data)
SessionCall(c) ==
    /\ MutGuard(c.m, store, c.step)
    /\ store' = save(MutApply(c.m, store, c.step, c.v))
    /\ UNCHANGED <<enrich, zone_cache, zone_task, tasks, call, queue, pubsub, log, todo, phase, rd, sc, failures, deleted,
                   response, api, apiRd, started, concl>>

\* the state after Session.create (lines 38-65)
InitSession ==
    /\ store = save(NewSession)
    /\ queue = [r \in Runs |-> << >>]
    /\ pubsub = [r \in Runs |-> << >>]
    /\ log = [r \in Runs |-> << >>]
    /\ todo = [r \in Runs |-> << >>]
    /\ phase = [r \in Runs |-> "get"]
    /\ rd = [r \in Runs |-> NoSession]
    /\ failures = 0
    /\ deleted = FALSE
    /\ response = "none"
    /\ api = "idle"
    /\ apiRd = NoSession
    /\ started = 0
    /\ concl = [r \in Runs |-> ""]
    /\ call = NoCall
    /\ sc = [r \in Runs |-> NoInput]
    /\ tasks = [r \in Runs |-> NoTasks]
    /\ InitNoZones

NextSession == \E c \in SessionOps : SessionCall(c)

SpecSession == InitSession /\ [][NextSession]_vars

\* ------------------------------------------------------------ SpecHistory
\* The conversation history of one session: messages are added one after
\* the other (the k-th message has content k; user and assistant take
\* turns), between any other calls of the Session class.  call.args is the
\* list of the messages added so far.
HistoryOps ==
    { c \in SessionOps : c.m \in {"reset_for_new_query", "save_conclusion",
                                  "mark_error", "mark_completed"} }

AddMessage ==
    /\ call.fn = "add_conversation_message"
    /\ Len(call.args) < MaxMessages
    /\ store.exists
    /\ LET k == Len(call.args) + 1
           role == IF k % 2 = 1 THEN "user" ELSE "assistant"
       IN  /\ store' = save(add_conversation_message(store, role, k))
           /\ call' = [call EXCEPT
                         !.args = Append(@, [role |-> role, content |-> k])]
    /\ UNCHANGED <<enrich, zone_cache, zone_task, tasks, queue, pubsub, log, todo, phase, rd, sc, failures, deleted,
                   response, api, apiRd, started, concl>>

InitHistory ==
    /\ store = save(NewSession)
    /\ queue = [r \in Runs |-> << >>]
    /\ pubsub = [r \in Runs |-> << >>]
    /\ log = [r \in Runs |-> << >>]
    /\ todo = [r \in Runs |-> << >>]
    /\ phase = [r \in Runs |-> "get"]
    /\ rd = [r \in Runs |-> NoSession]
    /\ failures = 0
    /\ deleted = FALSE
    /\ response = "none"
    /\ api = "idle"
    /\ apiRd = NoSession
    /\ started = 0
    /\ concl = [r \in Runs |-> ""]
    /\ sc = [r \in Runs |-> NoInput]
    /\ tasks = [r \in Runs |-> NoTasks]
    /\ InitNoZones
    /\ call = [fn |-> "add_conversation_message", args |-> << >>,
               ret |-> << >>, done |-> FALSE]

NextHistory ==
    \/ AddMessage
    \/ \E c \in HistoryOps : SessionCall(c)

SpecHistory == InitHistory /\ [][NextHistory]_vars

\* ------------------------------------------------------------- SpecExpiry
\* The retention of one session: calls of the Session class and a clock.
\* Redis deletes the key when its time to live has run out.  call.args is
\* the time in seconds since the last write of the key.
TickSeconds == SessionTTL \div TicksPerWindow

ExpiryCall(c) ==
    /\ call.fn = "ttl"
    /\ MutGuard(c.m, store, c.step)
    /\ store' = save(MutApply(c.m, store, c.step, c.v))
    /\ call' = [call EXCEPT !.args = 0, !.ret = c.m]
    /\ UNCHANGED <<enrich, zone_cache, zone_task, tasks, queue, pubsub, log, todo, phase, rd, sc, failures, deleted,
                   response, api, apiRd, started, concl>>

Tick ==
    /\ call.fn = "ttl"
    /\ store.exists
    /\ store' = IF store.ttl <= TickSeconds THEN NoSession
                ELSE [store EXCEPT !.ttl = @ - TickSeconds]
    /\ call' = [call EXCEPT !.args = @ + TickSeconds, !.ret = "tick"]
    /\ UNCHANGED <<enrich, zone_cache, zone_task, tasks, queue, pubsub, log, todo, phase, rd, sc, failures, deleted,
                   response, api, apiRd, started, concl>>

InitExpiry ==
    /\ store = save(NewSession)
    /\ queue = [r \in Runs |-> << >>]
    /\ pubsub = [r \in Runs |-> << >>]
    /\ log = [r \in Runs |-> << >>]
    /\ todo = [r \in Runs |-> << >>]
    /\ phase = [r \in Runs |-> "get"]
    /\ rd = [r \in Runs |-> NoSession]
    /\ failures = 0
    /\ deleted = FALSE
    /\ response = "none"
    /\ api = "idle"
    /\ apiRd = NoSession
    /\ started = 0
    /\ concl = [r \in Runs |-> ""]
    /\ sc = [r \in Runs |-> NoInput]
    /\ tasks = [r \in Runs |-> NoTasks]
    /\ InitNoZones
    /\ call = [fn |-> "ttl", args |-> 0, ret |-> "create", done |-> FALSE]

NextExpiry ==
    \/ Tick
    \/ \E c \in HistoryOps \cup { x \in SessionOps : x.m = "save_intent_result" } :
          ExpiryCall(c)

SpecExpiry == InitExpiry /\ [][NextExpiry]_vars

\* ------------------------------------------------ stock_signal_service.py
Abs(a) == IF a < 0 THEN 0 - a ELSE a
Min(a, b) == IF a < b THEN a ELSE b
Max(a, b) == IF a > b THEN a ELSE b

RECURSIVE SumSeq(_)
SumSeq(s) == IF s = << >> THEN 0 ELSE Head(s) + SumSeq(Tail(s))

\* values[a:b] of Python (0-based, b excluded, both within 0..len)
Slice(values, a, b) == SubSeq(values, a + 1, b)

\* detect_change_points works on floats; here the values are integers and
\* every comparison of the code is made exactly, on integers:
\*   diff  = (sum(after) - sum(before)) / w            = WindowDiff / w
\*   std   = sqrt(n * sum(v^2) - sum(v)^2) / n         = sqrt(VarN) / n
\*   score = abs(diff) / std                           = abs(WindowDiff) * n / (w * sqrt(VarN))
\* Scores of one call share the positive factor n / (w * sqrt(VarN)), so two
\* scores compare as their abs(WindowDiff) do.  The threshold is given in
\* tenths (13 is 1.3).

\* w * (np.mean(after) - np.mean(before)) at index i (lines 361-367)
WindowDiff(values, w, i) ==
    SumSeq(Slice(values, i, i + w)) - SumSeq(Slice(values, i - w, i))

\* n^2 * np.std(values)^2 (line 353)
VarN(values) ==
    LET n == Len(values)
        sq == [k \in DOMAIN values |-> values[k] * values[k]]
    IN  n * SumSeq(sq) - SumSeq(values) * SumSeq(values)

\* `score > threshold` with >= for >
score_exceeds_or_equals(values, w, i, t10) ==
    LET lhs == 10 * Abs(WindowDiff(values, w, i)) * Len(values)
        rhs == t10 * w
    IN  t10 < 0 \/ lhs * lhs >= rhs * rhs * VarN(values)

\* `score > threshold` (line 373)
score_exceeds(values, w, i, t10) ==
    LET lhs == 10 * Abs(WindowDiff(values, w, i)) * Len(values)
        rhs == t10 * w
    IN  t10 < 0 \/ lhs * lhs > rhs * rhs * VarN(values)

\* the local check without the comparison with the neighbours
is_local_maximum_always(values, w, i) == TRUE

\* `not neighbor_scores or score >= max(neighbor_scores)` over
\* range(max(window_size, i - 2), min(n - window_size, i + 3)), j != i
\* (lines 374-385)
is_local_maximum(values, w, i) ==
    \A j \in Max(w, i - 2)..(Min(Len(values) - w, i + 3) - 1) :
        j # i => Abs(WindowDiff(values, w, i)) >= Abs(WindowDiff(values, w, j))

\* a / b <= c / d for a, c >= 0 and b, d > 0, by the integer parts and then
\* the remainders, so that no product is formed
RECURSIVE FracLeq(_, _, _, _)
FracLeq(a, b, c, d) ==
    IF a \div b # c \div d THEN a \div b < c \div d
    ELSE IF a % b = 0 THEN TRUE
    ELSE IF c % d = 0 THEN FALSE
    ELSE FracLeq(d, c % d, b, a % b)

\* the largest k of 0..top with k <= 50 * score / |threshold|, where
\* (score / threshold)^2 = lhs^2 / (rhs^2 * VarN)
HalfRatio(values, w, i, t10, top) ==
    LET lhs == 10 * Abs(WindowDiff(values, w, i)) * Len(values)
        rhs == t10 * w
        below == { k \in 0..top :
                     FracLeq(k * k, 2500, lhs * lhs, rhs * rhs * VarN(values)) }
    IN  CHOOSE k \in below : \A l \in below : l <= k

\* min(score / threshold * 0.5, 0.99): the offset 0.5 left out
confidence_without_offset(values, w, i, t10) ==
    IF t10 = 0 THEN 99 ELSE HalfRatio(values, w, i, t10, 99)

\* min(float(score / threshold) * 0.5 + 0.5, 0.99) (lines 393-395), in
\* hundredths, rounded down.  score / 0.0 is inf for the numpy float score > 0.
\* The thresholds given to the function are not negative.
confidence(values, w, i, t10) ==
    IF t10 = 0 THEN 99 ELSE Min(HalfRatio(values, w, i, t10, 49) + 50, 99)

\* the dictionary appended at lines 386-397
ChangePoint(values, w, i, t10) ==
    [index |-> i,
     type |-> IF WindowDiff(values, w, i) > 0 THEN "rise" ELSE "drop",
     magnitude |-> Abs(WindowDiff(values, w, i)),
     diff_val |-> WindowDiff(values, w, i),
     confidence |-> confidence(values, w, i, t10), is_fallback |-> FALSE]

\* the loop of lines 358-397 over range(from, n - window_size)
RECURSIVE ScanFrom(_, _, _, _)
ScanFrom(values, w, t10, from) ==
    IF from >= Len(values) - w THEN << >>
    ELSE (IF score_exceeds(values, w, from, t10) /\ is_local_maximum(values, w, from)
          THEN << ChangePoint(values, w, from, t10) >> ELSE << >>)
         \o ScanFrom(values, w, t10, from + 1)

\* change_points.sort(key=magnitude, reverse=True) (line 400): stable
RECURSIVE SortByMagnitude(_)
SortByMagnitude(ps) ==
    IF ps = << >> THEN << >>
    ELSE LET rest == SortByMagnitude(SubSeq(ps, 1, Len(ps) - 1))
             p == ps[Len(ps)]
             k == Cardinality({ i \in DOMAIN rest : rest[i].magnitude >= p.magnitude })
         IN  SubSeq(rest, 1, k) \o << p >> \o SubSeq(rest, k + 1, Len(rest))

\* the fallback scan of lines 406-419: <<best_idx, best_diff, max_score>>
\* after range(from, n - window_size), entered with the triple `best`
RECURSIVE FallbackScan(_, _, _, _)
FallbackScan(values, w, from, best) ==
    IF from >= Len(values) - w THEN best
    ELSE LET d == WindowDiff(values, w, from)
         IN  FallbackScan(values, w, from + 1,
                          IF Abs(d) > best[3] THEN << from, d, Abs(d) >> ELSE best)

\* the dictionary appended at lines 422-432
FallbackPoint(best) ==
    [index |-> best[1],
     type |-> IF best[2] > 0 THEN "rise" ELSE "drop",
     magnitude |-> best[3], diff_val |-> best[2],
     confidence |-> 50, is_fallback |-> TRUE]

\* change_points[:5]
FirstFive(ps) == SubSeq(ps, 1, Min(Len(ps), 5))

\* detect_change_points without the two early returns and without the test
\* `best_idx != -1`
detect_change_points_unguarded(values, window_size, threshold) ==
    FirstFive(<< FallbackPoint(FallbackScan(values, window_size, window_size,
                                            << -1, 0, 0 >>)) >>)

\* detect_change_points (lines 324-434)
detect_change_points(values, window_size, threshold) ==
    IF Len(values) = 0 \/ Len(values) < window_size * 2 THEN << >>
    ELSE IF VarN(values) = 0 THEN << >>
    ELSE LET change_points ==
                 SortByMagnitude(ScanFrom(values, window_size, threshold,
                                          window_size))
             best == FallbackScan(values, window_size, window_size,
                                  << -1, 0, 0 >>)
         IN  FirstFive(
                 IF change_points = << >> /\ threshold > 5 /\ best[1] # -1
                 THEN << FallbackPoint(best) >>
                 ELSE change_points)

\* ---- inputs of detect_change_points
RECURSIVE SeqsUpTo(_, _)
SeqsUpTo(S, n) ==
    IF n = 0 THEN { << >> }
    ELSE LET shorter == SeqsUpTo(S, n - 1)
         IN  shorter \cup { Append(q, v) : q \in { t \in shorter : Len(t) = n - 1 },
                                           v \in S }

\* thresholds in tenths: 0, 0.5, 1.3, the default 1.5, and 2.0
Thresholds == {0, 5, 13, 15, 20}

\* 40 points, constant at L up to index 19, at 1.5 * L from index 20 on
LevelShift(L) == [k \in 1..40 |-> IF k <= 20 THEN L ELSE (3 * L) \div 2]

\* 8 points rising by one per point: every inner index has the same score
Ramp == [k \in 1..8 |-> k]

ChangePointInputs ==
    { [values |-> v, window_size |-> w, threshold |-> t] :
         v \in SeqsUpTo(0..MaxVal, MaxLen), w \in 1..MaxWindow, t \in Thresholds }
    \cup { [values |-> LevelShift(2 * l), window_size |-> 5, threshold |-> t] :
              l \in 1..MaxLevel, t \in {13, 20} }
    \cup { [values |-> Ramp, window_size |-> 1, threshold |-> t] : t \in {0, 15} }

DetectChangePoints ==
    /\ call.fn = "detect_change_points" /\ ~call.done
    /\ call' = [call EXCEPT
                  !.ret = detect_change_points(call.args.values,
                                               call.args.window_size,
                                               call.args.threshold),
                  !.done = TRUE]
    /\ UNCHANGED <<enrich, zone_cache, zone_task, tasks, store, queue, pubsub, log, todo, phase, rd, sc, failures,
                   deleted, response, api, apiRd, started, concl>>

InitRest ==
    /\ store = NoSession
    /\ queue = [r \in Runs |-> << >>]
    /\ pubsub = [r \in Runs |-> << >>]
    /\ log = [r \in Runs |-> << >>]
    /\ todo = [r \in Runs |-> << >>]
    /\ phase = [r \in Runs |-> "get"]
    /\ rd = [r \in Runs |-> NoSession]
    /\ failures = 0
    /\ deleted = FALSE
    /\ response = "none"
    /\ api = "idle"
    /\ apiRd = NoSession
    /\ started = 0
    /\ concl = [r \in Runs |-> ""]
    /\ sc = [r \in Runs |-> NoInput]
    /\ tasks = [r \in Runs |-> NoTasks]

InitChangePoints ==
    /\ InitRest
    /\ InitNoZones
    /\ \E a \in ChangePointInputs :
          call = [fn |-> "detect_change_points", args |-> a, ret |-> << >>,
                  done |-> FALSE]

NextChangePoints == DetectChangePoints

SpecChangePoints == InitChangePoints /\ [][NextChangePoints]_vars

\* -------------------------------------------------- influence_analyzer.py
\* Scores and correlations are in tenths.  The statistics of a factor
\* (stats.pearsonr and its p-value, lines 194-232) are an outcome of the
\* call: any of Stats.
Factors == << "temperature", "humidity", "season", "industry_structure" >>

Stats ==
    { [correlation |-> 0, influence_score |-> 0],
      [correlation |-> 6, influence_score |-> 6],
      [correlation |-> -10, influence_score |-> 10] }

\* _get_default_result (lines 545-559)
get_default_result ==
    [kind |-> "default",
     factors |-> [k \in 1..4 |-> [factor |-> Factors[k], correlation |-> 0,
                                  influence_score |-> 0]],
     ranking |-> << >>]

\* ranking.sort(reverse=True) done as an ascending sort that is reversed
RECURSIVE sort_by_influence_reversed(_)
sort_by_influence_reversed(fs) ==
    IF fs = << >> THEN << >>
    ELSE LET rest == sort_by_influence_reversed(SubSeq(fs, 1, Len(fs) - 1))
             f == fs[Len(fs)]
             k == Cardinality({ i \in DOMAIN rest :
                                  rest[i].influence_score > f.influence_score })
         IN  SubSeq(rest, 1, k) \o << f >> \o SubSeq(rest, k + 1, Len(rest))

\* ranking.sort(key=influence_score, reverse=True) (line 322): stable
RECURSIVE sort_by_influence(_)
sort_by_influence(fs) ==
    IF fs = << >> THEN << >>
    ELSE LET rest == sort_by_influence(SubSeq(fs, 1, Len(fs) - 1))
             f == fs[Len(fs)]
             k == Cardinality({ i \in DOMAIN rest :
                                  rest[i].influence_score >= f.influence_score })
         IN  SubSeq(rest, 1, k) \o << f >> \o SubSeq(rest, k + 1, Len(rest))

\* _generate_ranking (lines 294-324): one entry per item of factors_result,
\* in the insertion order of the dict, then the sort
generate_ranking(factors_result) == sort_by_influence(factors_result)

\* the dates of power_df that also are dates of weather_df
Aligned(a) == (1..a.power_rows) \cap a.weather_dates

\* temperature and humidity after the left merge and fillna(mean)
\* (lines 68-83): all NaN without an aligned date, constant with one; then
\* _calculate_factor_influence returns (0, 0) (lines 186-215)
WeatherStats(a, st) ==
    IF Cardinality(Aligned(a)) < 2
    THEN [correlation |-> 0, influence_score |-> 0] ELSE st

\* analyze_factors_influence (lines 34-168).  merged_df is power_df left-merged
\* with weather_df: one row per row of power_df.
analyze_factors_influence(a) ==
    LET merged_len == a.power_rows
        stat == << WeatherStats(a, a.temperature), WeatherStats(a, a.humidity),
                   a.season,
                   [correlation |-> 0,
                    influence_score |-> Min(a.industry_structure_ratio * 2, 10)] >>
        factors_result ==
            [k \in 1..4 |-> [factor |-> Factors[k],
                             correlation |-> stat[k].correlation,
                             influence_score |-> stat[k].influence_score]]
    IN  IF merged_len < MinRows THEN get_default_result
        ELSE [kind |-> "computed", factors |-> factors_result,
              ranking |-> generate_ranking(factors_result)]

\* power_df has rows for the dates 1..power_rows; weather_df (not empty, see
\* _step_influence_analysis line 1361) for the dates weather_dates
InfluenceInputs ==
    { [power_rows |-> n, weather_dates |-> w, temperature |-> t,
       humidity |-> h, season |-> s, industry_structure_ratio |-> r] :
         n \in 0..MaxRows,
         w \in { 1..1, 1..3, 1..MaxRows, (MaxRows + 1)..(MaxRows + 2) },
         t \in Stats, h \in Stats, s \in Stats, r \in {0, 3, 5, 8} }

AnalyzeFactorsInfluence ==
    /\ call.fn = "analyze_factors_influence" /\ ~call.done
    /\ call' = [call EXCEPT !.ret = analyze_factors_influence(call.args),
                            !.done = TRUE]
    /\ UNCHANGED <<enrich, zone_cache, zone_task, tasks, store, queue, pubsub, log, todo, phase, rd, sc, failures,
                   deleted, response, api, apiRd, started, concl>>

InitInfluence ==
    /\ InitRest
    /\ InitNoZones
    /\ \E a \in InfluenceInputs :
          call = [fn |-> "analyze_factors_influence", args |-> a,
                  ret |-> << >>, done |-> FALSE]

NextInfluence == AnalyzeFactorsInfluence

SpecInfluence == InitInfluence /\ [][NextInfluence]_vars

\* ------------------------------------------- anomaly zones (lines 540-803)
\* direction of the move from a to b
Direction(a, b) == IF b > a THEN "up" ELSE IF b < a THEN "down" ELSE "flat"

\* one segment of the series from index i to index j, as the orchestrator
\* maps it to a zone (lines 652-685): the dates, the prices at both ends
\* (avg_return is (endPrice - startPrice) / startPrice), the direction and
\* the sentiment derived from it
trend_zone(y, i, j) ==
    [startDate |-> i, endDate |-> j, startPrice |-> y[i], endPrice |-> y[j],
     direction |-> Direction(y[i], y[j]),
     sentiment |-> CASE Direction(y[i], y[j]) = "up" -> "positive"
                     [] Direction(y[i], y[j]) = "down" -> "negative"
                     [] OTHER -> "neutral",
     zone_type |-> "trend_segment"]

\* TrendService.analyze_trend(sig_df, method="plr"): the series cut into
\* contiguous segments, each a maximal run of moves in one direction
RECURSIVE plr(_, _, _)
plr(y, i, j) ==
    IF j = Len(y) THEN << trend_zone(y, i, j) >>
    ELSE IF Direction(y[j], y[j + 1]) = Direction(y[i], y[i + 1])
         THEN plr(y, i, j + 1)
         ELSE << trend_zone(y, i, j) >> \o plr(y, j, j + 1)

\* the zones computed from the task's own series when the cache has none
\* (lines 583-707)
compute_zones(y) == IF Len(y) < 2 THEN << >> ELSE plr(y, 1, 2)

\* lines 564-582: the cached zones of the region when there are any, else the
\* computed ones
anomaly_zones(cached, y) == IF cached # << >> THEN cached ELSE compute_zones(y)

ZoneSeries == SeqsUpTo(1..MaxVal, MaxZoneLen) \ { << >> }

\* redis_client.get(cache_key) with cache_key = power_zones_v3:{region_code}
\* (lines 565-580); an exception of the client is printed and the block
\* goes on without cached zones
ZoneCacheGet(t) ==
    /\ zone_task[t].pc = "start"
    /\ \E got \in { zone_cache[zone_task[t].region_code], NoZoneEntry } :
          zone_task' = [zone_task EXCEPT ![t].cached = got.zones,
                                         ![t].age = got.age,
                                         ![t].pc = "got"]
    /\ UNCHANGED <<enrich, zone_cache, tasks, store, queue, pubsub, log, todo, phase,
                   rd, sc, failures, deleted, response, api, apiRd, started,
                   concl, call>>

\* lines 767-775: `if anomaly_zones:` redis_client.setex(cache_key,
\* 12 * 60 * 60, zones_json), for computed and for cached zones alike
setex_zones(entry, cached, age, z) ==
    IF z # << >>
    THEN [zones |-> z, ttl |-> ZoneTicksPerWindow, age |-> age]
    ELSE entry

\* lines 583-797: the zones are computed unless cached ones were read; when
\* there are any they are written to the cache for 12 hours (an exception of
\* the client is printed), saved to the record and emitted
ZoneComputeSaveEmit(t) ==
    /\ zone_task[t].pc = "got"
    /\ LET z == anomaly_zones(zone_task[t].cached, zone_task[t].series)
           c == zone_task[t].region_code
           age == IF zone_task[t].cached # << >> THEN zone_task[t].age ELSE 0
       IN  /\ zone_task' = [zone_task EXCEPT ![t].zones = z, ![t].age = age,
                                             ![t].pc = "done"]
           /\ \/ zone_cache' =
                    [zone_cache EXCEPT ![c] =
                        setex_zones(@, zone_task[t].cached, age, z)]
              \/ zone_cache' = zone_cache
    /\ UNCHANGED <<enrich, tasks, store, queue, pubsub, log, todo, phase, rd, sc,
                   failures, deleted, response, api, apiRd, started, concl,
                   call>>

\* one clock step: every key of the cache has one step less to live and is
\* gone when none is left (the 12 hours of the SETEX at line 773); zones a
\* task holds, and zones in the cache, are one step older
ZoneTick ==
    /\ \E c \in Regions : zone_cache[c].zones # << >>
    /\ zone_cache' =
          [c \in Regions |->
              IF zone_cache[c].zones = << >> \/ zone_cache[c].ttl = 1
              THEN NoZoneEntry
              ELSE [zone_cache[c] EXCEPT
                       !.ttl = @ - 1,
                       !.age = Min(@ + 1, 2 * ZoneTicksPerWindow)]]
    /\ zone_task' =
          [t \in ZoneTasks |->
              IF zone_task[t].pc = "got" /\ zone_task[t].cached # << >>
              THEN [zone_task[t] EXCEPT
                       !.age = Min(@ + 1, 2 * ZoneTicksPerWindow)]
              ELSE zone_task[t]]
    /\ UNCHANGED <<enrich, tasks, store, queue, pubsub, log, todo, phase,
                   rd, sc, failures, deleted, response, api, apiRd, started,
                   concl, call>>

\* forecast tasks, each with a region code and a series of its own, at the
\* start of the zone block
InitZones ==
    /\ InitRest
    /\ call = NoCall
    /\ enrich = NoEnrich
    /\ zone_cache = NoZoneCache
    /\ zone_task \in
          [ZoneTasks -> { [pc |-> "start", region_code |-> c, series |-> y,
                           cached |-> << >>, age |-> 0, zones |-> << >>] :
                          c \in Regions, y \in ZoneSeries }]

NextZones ==
    \/ \E t \in ZoneTasks : ZoneCacheGet(t)
    \/ \E t \in ZoneTasks : ZoneComputeSaveEmit(t)
    \/ ZoneTick

SpecZones == InitZones /\ [][NextZones]_vars


\* --------------------------- change-point enrichment (lines 1104-1113)
\* asyncio.Semaphore.locked(): no permit is left
limit_never_locked(e) == FALSE

limit_locked(e) == e.value = 0

\* sem_task(cp), `async with limit:` entered: a permit is taken and
\* enrich_point(cp) starts; the coroutine waits while the semaphore is locked
EnrichAcquire(i) ==
    /\ i \in DOMAIN enrich.pc /\ enrich.pc[i] = "waiting"
    /\ ~limit_locked(enrich)
    /\ enrich' = [value |-> enrich.value - 1,
                  pc |-> [enrich.pc EXCEPT ![i] = "running"]]
    /\ UNCHANGED <<zone_cache, zone_task, tasks, store, queue, pubsub, log,
                   todo, phase, rd, sc, failures, deleted, response, api,
                   apiRd, started, concl, call>>

\* enrich_point(cp) returns or raises: `async with` gives the permit back
EnrichRelease(i) ==
    /\ i \in DOMAIN enrich.pc /\ enrich.pc[i] = "running"
    /\ enrich' = [value |-> enrich.value + 1,
                  pc |-> [enrich.pc EXCEPT ![i] = "done"]]
    /\ UNCHANGED <<zone_cache, zone_task, tasks, store, queue, pubsub, log,
                   todo, phase, rd, sc, failures, deleted, response, api,
                   apiRd, started, concl, call>>

\* tasks = [sem_task(cp) for cp in all_change_points] (line 1112), for any
\* number of change points
InitEnrich ==
    /\ InitRest
    /\ call = NoCall
    /\ zone_cache = NoZoneCache /\ zone_task = NoZoneTasks
    /\ \E n \in 0..MaxPoints :
          enrich = [value |-> EnrichLimit, pc |-> [i \in 1..n |-> "waiting"]]

NextEnrich ==
    \/ \E i \in 1..MaxPoints : EnrichAcquire(i)
    \/ \E i \in 1..MaxPoints : EnrichRelease(i)

SpecEnrich == InitEnrich /\ [][NextEnrich]_vars


\* ------------------ adaptive_clustering (stock_signal_service.py 82-151)
\* Scores are in thousandths (900 is 0.9), thresholds in hundred-thousandths
\* (80000 is 0.8).  Indices are
\* those of the source, from 0: scores[i] of the source is At(scores, i).
At(scores, i) == scores[i + 1]

\* sorted(recent_scores), ascending
RECURSIVE SortAsc(_)
SortAsc(q) ==
    IF q = << >> THEN << >>
    ELSE LET rest == SortAsc(Tail(q))
             k == Cardinality({ i \in DOMAIN rest : rest[i] <= Head(q) })
         IN  SubSeq(rest, 1, k) \o << Head(q) >> \o SubSeq(rest, k + 1, Len(rest))

\* np.percentile(recent_scores, pct), linear interpolation between the two
\* order statistics around position (n - 1) * pct / 100; in
\* hundred-thousandths
percentile(recent_scores, pct) ==
    LET sorted == SortAsc(recent_scores)
        pos == (Len(sorted) - 1) * pct
        lo == pos \div 100
        fr == pos % 100
    IN  IF fr = 0 THEN 100 * At(sorted, lo)
        ELSE 100 * At(sorted, lo) + fr * (At(sorted, lo + 1) - At(sorted, lo))

\* valid_scores[-self.lookback:] if len(valid_scores) > self.lookback (lines
\* 95-99); lookback is 60 and exceeds every series here
recent(scores) == scores

\* lines 92-104: 0.8 and 0.6 below 10 valid scores, else the 95th and the
\* 85th percentile, at least 0.3 and 0.2
t_high(scores) ==
    IF Len(scores) < 10 THEN 80000
    ELSE Max(percentile(recent(scores), 95), 30000)
t_low(scores) ==
    IF Len(scores) < 10 THEN 60000
    ELSE Max(percentile(recent(scores), 85), 20000)

\* `scores[j] > t` of lines 107, 114 and 123
above(scores, j, t) == 100 * At(scores, j) > t

\* lines 111-119: zone_end after the forward loop entered with j
RECURSIVE expand_forward(_, _, _, _, _, _)
expand_forward(scores, tl, max_zone_days, zone_start, j, zone_end) ==
    IF j < Len(scores) /\ above(scores, j, tl) /\ (j - zone_start) < max_zone_days
    THEN expand_forward(scores, tl, max_zone_days, zone_start, j + 1, j)
    ELSE zone_end

\* lines 121-127: zone_start after the backward loop entered with j
RECURSIVE expand_backward(_, _, _, _, _, _)
expand_backward(scores, tl, max_zone_days, zone_end, j, zone_start) ==
    IF j >= 0 /\ above(scores, j, tl) /\ (zone_end - j) < max_zone_days
    THEN expand_backward(scores, tl, max_zone_days, zone_end, j - 1, j)
    ELSE zone_start

\* the while loop of lines 106-149 from index i on
RECURSIVE cluster_from(_, _, _)
cluster_from(scores, max_zone_days, i) ==
    IF i >= Len(scores) THEN << >>
    ELSE IF above(scores, i, t_high(scores))
    THEN LET zone_end == expand_forward(scores, t_low(scores), max_zone_days,
                                        i, i + 1, i)
             zone_start == expand_backward(scores, t_low(scores), max_zone_days,
                                           zone_end, i - 1, i)
         IN  << [start_idx |-> zone_start, end_idx |-> zone_end,
                 zone_type |-> "cluster"] >>
             \o cluster_from(scores, max_zone_days, zone_end + 1)
    ELSE cluster_from(scores, max_zone_days, i + 1)

\* the forward loop without the test of the duration
adaptive_clustering_unbounded(scores, max_zone_days) ==
    cluster_from(scores, Len(scores) + 1, 0)

\* adaptive_clustering (lines 82-151) on a frame with the columns date,
\* daily_score and returns
adaptive_clustering(scores, max_zone_days) ==
    IF Len(scores) = 0 THEN << >> ELSE cluster_from(scores, max_zone_days, 0)

\* score series: every short one over 0.5, 0.7 and 0.9, and long ones with a
\* peak of 0.9 at p, shoulders of 0.5 up to s points around it, 0.1 elsewhere
ScoreInputs ==
    { [scores |-> q, max_zone_days |-> d] :
         q \in SeqsUpTo({500, 700, 900}, MaxScoreLen), d \in 1..MaxZoneDays }
    \cup { [scores |-> [k \in 1..n |->
                          IF k = p THEN 900 ELSE IF Abs(k - p) <= s THEN 500
                          ELSE 100],
            max_zone_days |-> d] :
              n \in 10..MaxLongLen, p \in 1..MaxLongLen, s \in 0..3,
              d \in 1..MaxZoneDays }

AdaptiveClustering ==
    /\ call.fn = "adaptive_clustering" /\ ~call.done
    /\ call' = [call EXCEPT
                  !.ret = adaptive_clustering(call.args.scores,
                                              call.args.max_zone_days),
                  !.done = TRUE]
    /\ UNCHANGED <<enrich, zone_cache, zone_task, tasks, store, queue, pubsub,
                   log, todo, phase, rd, sc, failures, deleted, response, api,
                   apiRd, started, concl>>

InitClustering ==
    /\ InitRest
    /\ InitNoZones
    /\ \E a \in ScoreInputs :
          call = [fn |-> "adaptive_clustering", args |-> a, ret |-> << >>,
                  done |-> FALSE]

NextClustering == AdaptiveClustering

SpecClustering == InitClustering /\ [][NextClustering]_vars


\* ---------------------- generate_zones (stock_signal_service.py 39-219)
\* The frame is sig_df of the orchestrator (lines 550-556): the columns date,
\* close and volume, volume 1 on every row, and no news counts (line 561).
\* A frame here: the close series, the set of its columns, daily_score in
\* thousandths.
SigColumns == {"date", "close", "volume"}

\* a common multiple of every close value: returns become integers
RECURSIVE Product(_)
Product(n) == IF n <= 1 THEN 1 ELSE n * Product(n - 1)

\* df["close"].pct_change().fillna(0) at row i (from 0), times
\* Product(MaxClose)
returns(close, i) ==
    IF i = 0 THEN 0
    ELSE (At(close, i) - At(close, i - 1))
            * (Product(MaxClose) \div At(close, i - 1))

\* the first row with the largest abs_return
RECURSIVE ArgMaxAbsReturn(_, _, _)
ArgMaxAbsReturn(close, i, best) ==
    IF i >= Len(close) THEN best
    ELSE ArgMaxAbsReturn(close, i + 1,
            IF Abs(returns(close, i)) > Abs(returns(close, best)) THEN i ELSE best)

\* abs_return_norm (lines 65-70): abs_return / col_max, 0 when col_max is 0
abs_return_norm(close, i) ==
    LET col_max == Abs(returns(close, ArgMaxAbsReturn(close, 0, 0)))
    IN  IF col_max > 0 THEN (1000 * Abs(returns(close, i))) \div col_max ELSE 0

\* vol_ratio_norm (lines 52-56, 65-70) for volume 1 on every row: the
\* rolling mean over min(window, len(df)) rows, window 20, is NaN before row
\* min(window, len) - 1 and 1 from there on; NaN becomes 0 by fillna(0)
vol_ratio_norm(close, i) ==
    IF i >= Min(20, Len(close)) - 1 THEN 1000 ELSE 0

\* calculate_daily_scores (lines 39-80): on an empty frame or one of a single
\* row only the column daily_score is added, with value 0
calculate_daily_scores(close) ==
    IF Len(close) = 0 \/ Len(close) < 2
    THEN [close |-> close, columns |-> SigColumns \cup {"daily_score"},
          daily_score |-> [i \in DOMAIN close |-> 0]]
    ELSE [close |-> close,
          columns |-> SigColumns \cup
                        {"returns", "abs_return", "vol_ratio", "news_density",
                         "abs_return_norm", "vol_ratio_norm",
                         "news_density_norm", "daily_score"},
          daily_score |->
              [i \in DOMAIN close |->
                  (4 * abs_return_norm(close, i - 1)) \div 10
                  + (3 * vol_ratio_norm(close, i - 1)) \div 10]]

\* sum of returns over rows s..e
RECURSIVE SumReturns(_, _, _)
SumReturns(close, s, e) ==
    IF s > e THEN 0 ELSE returns(close, s) + SumReturns(close, s + 1, e)

\* adaptive_clustering on the frame (lines 82-90 and 129-143):
\* df["returns"] raises KeyError when the frame has no such column
adaptive_clustering_of(df, max_zone_days) ==
    IF Len(df.close) = 0 \/ "daily_score" \notin df.columns
    THEN [raised |-> "none", zones |-> << >>]
    ELSE IF "returns" \notin df.columns
    THEN [raised |-> "KeyError", zones |-> << >>]
    ELSE [raised |-> "none",
          zones |->
            LET zs == adaptive_clustering(df.daily_score, max_zone_days)
            IN  [k \in DOMAIN zs |->
                    [start_idx |-> zs[k].start_idx, end_idx |-> zs[k].end_idx,
                     zone_type |-> "cluster",
                     avg_score |->
                        SumSeq(SubSeq(df.daily_score, zs[k].start_idx + 1,
                                      zs[k].end_idx + 1))
                          \div (zs[k].end_idx - zs[k].start_idx + 1),
                     avg_return |->
                        SumReturns(df.close, zs[k].start_idx, zs[k].end_idx)]]]

\* the first row with the largest daily_score among the rows not in `skip`
RECURSIVE ArgMaxScore(_, _, _, _)
ArgMaxScore(scores, skip, i, best) ==
    IF i >= Len(scores) THEN best
    ELSE ArgMaxScore(scores, skip, i + 1,
            IF i \notin skip /\ (best = -1 \/ At(scores, i) > At(scores, best))
            THEN i ELSE best)

\* fallback_top_points (lines 153-173) with k = 2: df.nlargest(2,
\* "daily_score"), one single-row zone each
fallback_top_points(df, k) ==
    IF Len(df.close) = 0 \/ Len(df.close) < k THEN << >>
    ELSE LET first == ArgMaxScore(df.daily_score, {}, 0, -1)
             second == ArgMaxScore(df.daily_score, {first}, 0, -1)
             zone(idx) ==
                 [start_idx |-> idx, end_idx |-> idx, zone_type |-> "fallback",
                  avg_score |-> At(df.daily_score, idx),
                  avg_return |-> IF "returns" \in df.columns
                                 THEN returns(df.close, idx) ELSE 0]
         IN  << zone(first), zone(second) >>

\* calculate_impact (lines 175-180), in thousandths
calculate_impact(zone, max_score) ==
    IF max_score <= 0 THEN 500
    ELSE Max(Min((1000 * zone.avg_score) \div max_score, 1000), 300)

\* enriched_zones.sort(key=impact, reverse=True) (line 212): stable
RECURSIVE SortByImpact(_)
SortByImpact(zs) ==
    IF zs = << >> THEN << >>
    ELSE LET rest == SortByImpact(SubSeq(zs, 1, Len(zs) - 1))
             z == zs[Len(zs)]
             k == Cardinality({ i \in DOMAIN rest : rest[i].impact >= z.impact })
         IN  SubSeq(rest, 1, k) \o << z >> \o SubSeq(rest, k + 1, Len(rest))

\* max_score = df_with_scores['daily_score'].max() if not empty else 1.0
\* (lines 200-202)
max_daily_score(df_with_scores) ==
    IF Len(df_with_scores.close) = 0 THEN 1000
    ELSE df_with_scores.daily_score[
           ArgMaxScore(df_with_scores.daily_score, {}, 0, -1) + 1]

\* one entry of enriched_zones (lines 204-209)
enriched_zone(zone, max_score, is_calm) ==
    [startDate |-> zone.start_idx, endDate |-> zone.end_idx,
     avg_score |-> zone.avg_score,
     avg_return |-> zone.avg_return,
     impact |-> calculate_impact(zone, max_score),
     sentiment |-> IF zone.avg_return >= 0 THEN "positive" ELSE "negative",
     zone_type |-> IF is_calm THEN "calm" ELSE zone.zone_type]

\* enriched_zones, sorted by impact, the first ten (lines 203-213)
enriched_zones(zones, max_score, is_calm) ==
    LET sorted == SortByImpact([k \in DOMAIN zones |->
                                   enriched_zone(zones[k], max_score, is_calm)])
    IN  SubSeq(sorted, 1, Min(Len(sorted), 10))

\* if not zones: zones = fallback_top_points(df, 2); is_calm = True
\* (lines 193-197)
zones_or_fallback(zones, df_with_scores) ==
    IF zones = << >> THEN fallback_top_points(df_with_scores, 2) ELSE zones

\* generate_zones (lines 182-219); an exception of a step is the result
generate_zones_from(df_with_scores, max_zone_days) ==
    LET clustered == adaptive_clustering_of(df_with_scores, max_zone_days)
    IN  IF clustered.raised # "none"
        THEN [raised |-> clustered.raised, zones |-> << >>]
        ELSE [raised |-> "none",
              zones |-> enriched_zones(
                            zones_or_fallback(clustered.zones, df_with_scores),
                            max_daily_score(df_with_scores),
                            clustered.zones = << >>)]

generate_zones(close, max_zone_days) ==
    generate_zones_from(calculate_daily_scores(close), max_zone_days)

\* close series: the empty one, single points, constant and short ones
CloseInputs ==
    { [close |-> c, max_zone_days |-> d] :
         c \in SeqsUpTo(1..MaxClose, MaxCloseLen), d \in 1..MaxZoneDays }

GenerateZones ==
    /\ call.fn = "generate_zones" /\ ~call.done
    /\ call' = [call EXCEPT
                  !.ret = generate_zones(call.args.close,
                                         call.args.max_zone_days),
                  !.done = TRUE]
    /\ UNCHANGED <<enrich, zone_cache, zone_task, tasks, store, queue, pubsub,
                   log, todo, phase, rd, sc, failures, deleted, response, api,
                   apiRd, started, concl>>

InitSignals ==
    /\ InitRest
    /\ InitNoZones
    /\ \E a \in CloseInputs :
          call = [fn |-> "generate_zones", args |-> a,
                  ret |-> [raised |-> "none", zones |-> << >>],
                  done |-> FALSE]

NextSignals == GenerateZones

SpecSignals == InitSignals /\ [][NextSignals]_vars


\* ================================================================ claims
Terminal == {"step_complete", "error", "done"}

\* C1: every execution that has returned has emitted a `done` event, and
\* that event comes after every `error` event of the execution.
C1_DoneAlwaysEmitted ==
    \A r \in Runs :
        Finished(r) =>
            \E i \in DOMAIN queue[r] :
                /\ queue[r][i].type = "done"
                /\ \A j \in DOMAIN queue[r] : queue[r][j].type = "error" => j < i

\* C2: when the primary fetch of step 3 has failed, the finished execution
\* has emitted no event of step 4, 5 or 6 and the stored status is Error.
C2_FetchFailureEndsInError ==
    \A r \in Runs :
        (Finished(r) /\ sc[r].intent = "forecast" /\ sc[r].power # "ok") =>
            /\ \A i \in DOMAIN queue[r] : queue[r][i].step \notin {4, 5, 6}
            /\ (store.exists /\ started = 1) => store.status = "error"

\* C3: replaying the durable log from the beginning yields exactly the
\* events delivered to the live queue, in the same order.
C3_ReplayEqualsLive ==
    \A r \in Runs : Replay(log[r]) = queue[r]

\* C4: a step_complete, error or done event held by the live listener after
\* _emit_event has returned is in the durable log.
C4_TerminalEventsDurable ==
    \A r \in Runs : \A i \in DOMAIN queue[r] :
        queue[r][i].type \in Terminal =>
            \E k \in DOMAIN log[r] : json_loads(log[r][k].data) = queue[r][i]

\* C5: once delete has returned, the key does not exist, so every later get
\* reports NotFound.
C5_DeletedStaysNotFound == deleted => ~store.exists

\* C6: once the task is deleted no event is put on the live queue,
\* published, or appended to the durable log.
C6_NoEventAfterDelete ==
    [][deleted => (queue' = queue /\ pubsub' = pubsub /\ log' = log)]_vars

\* C7: at most one orchestrator execution is active for the session id.
C7_SingleWriter == Cardinality({ r \in Runs : Active(r) }) <= 1

\* C8: the user message appended by the follow-up request's
\* add_conversation_message is not lost to a writer of other fields: once
\* the handler has scheduled the follow-up, the stored history holds the
\* messages of both requests.
C8_NoLostUpdate ==
    (started >= 2 /\ store.exists) => Len(store.conversation_history) >= 2

C10_UnresolvedRegionEndsInError ==
    \A r \in Runs :
        (/\ Finished(r) /\ sc[r].intent = "forecast" /\ sc[r].scope
         /\ sc[r].region \in {"absent", "unmatched"}) =>
            /\ \E i \in DOMAIN queue[r] :
                  queue[r][i].type = "error" /\ queue[r][i].v = "region_not_found"
            /\ \A i \in DOMAIN queue[r] : queue[r][i].step < 3
            /\ (store.exists /\ started = 1) => store.status = "error"

\* C11: when the primary fetch succeeded and an optional fetch of step 3
\* (news, RAG) failed, the finished execution has completed step 3, the
\* failing source's contribution is empty, and the task did not end in Error.
C11_OptionalFailureAbsorbed ==
    \A r \in Runs :
        (/\ Finished(r) /\ sc[r].intent = "forecast" /\ sc[r].power = "ok"
         /\ sc[r].optfail # "none" /\ sc[r].exc = "none") =>
            /\ \E i \in DOMAIN queue[r] :
                  queue[r][i].type = "step_complete" /\ queue[r][i].step = 3
            /\ \A i \in DOMAIN queue[r] : queue[r][i].type # "error"
            /\ (sc[r].optfail \in {"news", "both"} =>
                  \A i \in DOMAIN queue[r] : queue[r][i].v # "news")
            /\ (store.exists /\ started = 1) =>
                  /\ store.status # "error"
                  /\ store.step_details[3].status = "completed"
                  /\ (sc[r].optfail \in {"news", "both"} => store.news_list = << >>)
                  /\ (sc[r].optfail \in {"rag", "both"} => store.rag_sources = << >>)

\* a forecast whose news fetch failed has finished: step 3 completed, no
\* news, the RAG sources of the other fetch saved, status Completed
C11_Witness ==
    /\ Finished(1) /\ sc[1].optfail = "news" /\ sc[1].exc = "none"
    /\ store.exists /\ store.status = "completed"
    /\ store.step_details[3].status = "completed"
    /\ store.news_list = << >> /\ store.rag_sources # << >>
    /\ store.time_series_original # << >>

\* C12: when the Narrator call of step 6 raises, the finished execution has
\* a conclusion, has completed step 6, and the stored status is Completed,
\* not Error.
C12_NarratorFailureAbsorbed ==
    \A r \in Runs :
        (/\ Finished(r) /\ sc[r].intent = "forecast" /\ sc[r].exc = "report") =>
            /\ \E i \in DOMAIN queue[r] :
                  queue[r][i].type = "step_complete" /\ queue[r][i].step = 6
            /\ \A i \in DOMAIN queue[r] : queue[r][i].type # "error"
            /\ (store.exists /\ started = 1) =>
                  /\ store.status = "completed"
                  /\ store.conclusion # ""
                  /\ store.step_details[6].status = "completed"

\* C13: save_intent_result(intent) installs the template of the intent (7
\* steps for forecast, 2 for rag, 2 for news, 1 for chat and for any other
\* intent), ids "1".."N" and the template's names in order, all pending; and
\* no other call than save_intent_result and reset_for_new_query changes the
\* number, order, ids or names of the steps.
C13_Count(intent) ==
    CASE intent = "forecast" -> 7
      [] intent \in {"rag", "news"} -> 2
      [] OTHER -> 1

C13_Names(intent) ==
    CASE intent = "forecast" ->
            << "data_fetch_and_preprocessing", "news_and_sentiment",
               "time_series_features", "parameter_recommendation",
               "model_training_and_forecast", "result_visualisation", "report" >>
      [] intent = "rag" -> << "report_retrieval", "answer" >>
      [] intent = "news" -> << "news_search", "news_summary" >>
      [] OTHER -> << "answer" >>

C13_Ids == << "1", "2", "3", "4", "5", "6", "7" >>

C13_Shape(data) ==
    [i \in DOMAIN data.step_details |->
        << data.step_details[i].id, data.step_details[i].name >>]

C13_TemplateFixed ==
    [][\A c \in SessionOps :
          SessionCall(c) =>
             IF c.m = "save_intent_result"
             THEN /\ Len(store'.step_details) = C13_Count(c.v)
                  /\ store'.total_steps = C13_Count(c.v)
                  /\ \A i \in DOMAIN store'.step_details :
                        /\ store'.step_details[i].id = C13_Ids[i]
                        /\ store'.step_details[i].name = C13_Names(c.v)[i]
                        /\ store'.step_details[i].status = "pending"
             ELSE c.m # "reset_for_new_query" =>
                     C13_Shape(store') = C13_Shape(store)]_vars

C13_Witness ==
    /\ store.exists /\ store.intent = "rag" /\ store.status = "completed"
    /\ Len(store.step_details) = 2
    /\ store.step_details[1].status = "error"
    /\ store.step_details[2].status = "completed"
    /\ store.step_details[2].name = "answer"
    /\ store.error_message = "failed" /\ store.news_list # << >>

\* C14: in an execution whose intent was classified, every step_start and
\* step_complete event carries a step number in 1..N, N the step count of
\* the template of the classified intent, and every step_start carries the
\* name that template gives to the step number.
C14_StepsMatchTemplate ==
    \A r \in Runs :
        (r <= started /\ sc[r].intent \in {"forecast", "chat"}) =>
            LET steps == get_steps_for_intent(sc[r].intent)
            IN  \A i \in DOMAIN queue[r] :
                   /\ queue[r][i].type \in {"step_start", "step_complete"} =>
                         queue[r][i].step \in 1..Len(steps)
                   /\ queue[r][i].type = "step_start" =>
                         /\ queue[r][i].step \in 1..Len(steps)
                         /\ queue[r][i].v = steps[queue[r][i].step].name

\* the score of index i is strictly greater than the threshold (in tenths):
\* |mean(after) - mean(before)| / std > t, squared and cleared of fractions
ScoreAbove(values, w, i, t10) ==
    LET n == Len(values)
        d == SumSeq(SubSeq(values, i + 1, i + w)) - SumSeq(SubSeq(values, i - w + 1, i))
        varn == n * SumSeq([k \in DOMAIN values |-> values[k] * values[k]])
                  - SumSeq(values) * SumSeq(values)
    IN  t10 < 0 \/ (10 * d * n) * (10 * d * n) > (t10 * w) * (t10 * w) * varn

Returned == call.fn = "detect_change_points" /\ call.done

\* C15: for a series of length n >= 2w, every returned point has its index
\* in [w, n-w), and every returned point not flagged is_fallback has a score
\* strictly greater than the threshold.
C15_IndexRangeAndThreshold ==
    (Returned /\ Len(call.args.values) >= 2 * call.args.window_size) =>
        \A k \in DOMAIN call.ret :
            /\ call.ret[k].index >= call.args.window_size
            /\ call.ret[k].index < Len(call.args.values) - call.args.window_size
            /\ ~call.ret[k].is_fallback =>
                  ScoreAbove(call.args.values, call.args.window_size,
                             call.ret[k].index, call.args.threshold)

C15_Witness ==
    /\ Returned /\ call.args.values = Ramp /\ call.args.threshold = 0
    /\ Len(call.ret) = 5
    /\ \A k \in DOMAIN call.ret : ~call.ret[k].is_fallback /\ call.ret[k].index = k

\* C16: for a non-constant series of length n >= 2w in which no index of
\* [w, n-w) has a score above the threshold, exactly one point is returned:
\* a highest-scoring index, flagged is_fallback, with confidence 0.5.
C16_FallbackAlwaysOnePoint ==
    LET values == call.args.values
        w == call.args.window_size
        inner == w..(Len(values) - w - 1)
    IN  (/\ Returned /\ Len(values) >= 2 * w
         /\ \E i, j \in DOMAIN values : values[i] # values[j]
         /\ \A i \in inner : ~ScoreAbove(values, w, i, call.args.threshold)) =>
            /\ Len(call.ret) = 1
            /\ call.ret[1].is_fallback
            /\ call.ret[1].confidence = 50
            /\ call.ret[1].index \in inner
            /\ \A i \in inner :
                  call.ret[1].magnitude >=
                     Abs(SumSeq(SubSeq(values, i + 1, i + w))
                         - SumSeq(SubSeq(values, i - w + 1, i)))

\* C17: the result is the empty list for every constant series and for
\* every series shorter than 2w, the empty series included.
C17_EmptyForConstantOrShort ==
    (/\ Returned
     /\ \/ \A i, j \in DOMAIN call.args.values :
              call.args.values[i] = call.args.values[j]
        \/ Len(call.args.values) < 2 * call.args.window_size) =>
        call.ret = << >>

C17_Witness ==
    /\ Returned /\ call.ret = << >>
    /\ call.args.values = << 2, 2, 2, 2, 2 >> /\ call.args.window_size = 2
    /\ call.args.threshold = 15

\* C18: on the 40-point series constant at L up to index 19 and at 1.5 L
\* from index 20 on (L > 0), with window 5 and threshold 1.3, exactly one
\* change point is returned, at an index near 20, with direction rise.
C18_LevelShiftScenario ==
    (/\ Returned
     /\ \E l \in 1..MaxLevel : call.args.values = LevelShift(2 * l)
     /\ call.args.window_size = 5 /\ call.args.threshold = 13) =>
        /\ Len(call.ret) = 1
        /\ call.ret[1].index \in 18..22
        /\ call.ret[1].type = "rise"
        /\ ~call.ret[1].is_fallback

C18_Witness ==
    /\ Returned /\ call.args.values = LevelShift(2)
    /\ call.args.window_size = 5 /\ call.args.threshold = 13
    /\ Len(call.ret) = 1 /\ call.ret[1].index = 20 /\ call.ret[1].type = "rise"

Analyzed == call.fn = "analyze_factors_influence" /\ call.done

\* position of a factor in the declaration order
DeclarationIndex(f) ==
    CASE f = "temperature" -> 1 [] f = "humidity" -> 2
      [] f = "season" -> 3 [] OTHER -> 4

\* C19: the ranking of a computed result lists the four factors in
\* non-increasing order of influence score, factors of equal score in their
\* declaration order (temperature, humidity, season, industry_structure).
C19_RankingStable ==
    (Analyzed /\ call.ret.kind = "computed") =>
        /\ Len(call.ret.ranking) = 4
        /\ \A i, j \in DOMAIN call.ret.ranking :
              i < j =>
                 \/ call.ret.ranking[i].influence_score
                       > call.ret.ranking[j].influence_score
                 \/ /\ call.ret.ranking[i].influence_score
                          = call.ret.ranking[j].influence_score
                    /\ DeclarationIndex(call.ret.ranking[i].factor)
                          < DeclarationIndex(call.ret.ranking[j].factor)
        /\ \A k \in DOMAIN call.ret.factors :
              \E i \in DOMAIN call.ret.ranking :
                 /\ call.ret.ranking[i].factor = call.ret.factors[k].factor
                 /\ call.ret.ranking[i].influence_score
                       = call.ret.factors[k].influence_score

C19_Witness ==
    /\ Analyzed /\ call.ret.kind = "computed"
    /\ call.ret.ranking[1].factor = "humidity"
    /\ call.ret.ranking[2].factor = "temperature"
    /\ call.ret.ranking[3].factor = "season"
    /\ call.ret.ranking[4].factor = "industry_structure"
    /\ call.ret.ranking[2].influence_score = 6
    /\ call.ret.ranking[3].influence_score = 6
    /\ call.ret.ranking[4].influence_score = 6

\* C20: when fewer than 10 dates have both a target value and weather
\* values, the result is the default result (all correlations and influence
\* scores 0, empty ranking), whatever the number of rows of power_df.
C20_DefaultBelowTenAligned ==
    (Analyzed /\ Cardinality(Aligned(call.args)) < 10) =>
        /\ call.ret.ranking = << >>
        /\ \A k \in DOMAIN call.ret.factors :
              /\ call.ret.factors[k].correlation = 0
              /\ call.ret.factors[k].influence_score = 0

\* C21: after any sequence of add_conversation_message calls the stored
\* history holds at most 20 messages and equals the most recent min(20, k)
\* of the k messages added, in the order they were added.
C21_HistoryLastTwenty ==
    (call.fn = "add_conversation_message" /\ store.exists) =>
        LET k == Len(call.args)
            kept == IF k < 20 THEN k ELSE 20
        IN  /\ Len(store.conversation_history) <= 20
            /\ Len(store.conversation_history) = kept
            /\ \A i \in 1..kept :
                  store.conversation_history[i] = call.args[k - kept + i]

C21_Witness ==
    /\ call.fn = "add_conversation_message" /\ Len(call.args) = 22
    /\ Len(store.conversation_history) = 20
    /\ store.conversation_history[1].content = 3
    /\ store.conversation_history[20].content = 22
    /\ store.status = "error"

\* C22: every write of the session (create and every mutator that finds
\* it) leaves the key with the full time to live of 24 hours, and the key
\* expires only when 24 hours have passed since the last write.
C22_EveryWriteRefreshesTTL ==
    call.fn = "ttl" =>
        /\ (store.exists /\ call.ret # "tick") => store.ttl = 24 * 60 * 60
        /\ store.exists => store.ttl + call.args = 24 * 60 * 60
        /\ ~store.exists => call.args >= 24 * 60 * 60

C22_Witness ==
    /\ call.fn = "ttl" /\ call.ret = "mark_error" /\ call.args = 0
    /\ store.exists /\ store.ttl = 86400 /\ store.status = "error"
    /\ store.intent = "forecast" /\ store.conclusion = "text"

\* C23: once the stored status is Completed or Error, no step of an
\* orchestrator execution and no call of the store changes it (a reset is
\* the only exception); in particular it never goes back to Processing and
\* Completed never becomes Error.
C23_TerminalStatusStays ==
    [][(/\ store.exists /\ store'.exists
        /\ store.status \in {"completed", "error"}
        /\ ~(\E c \in SessionOps :
                c.m = "reset_for_new_query" /\ SessionCall(c))
        /\ ~ApiResetSave) =>
           store'.status = store.status]_vars

\* the moves of a step's status the claim allows
StepMoves ==
    { << "pending", "running" >>, << "running", "completed" >>,
      << "running", "error" >> }

\* C24: while the step list of a task stays the same list (no reset, no new
\* classification), the status of each of its steps stays as it is or moves
\* Pending -> Running, Running -> Completed or Running -> Error.
C24_StepStatusMoves ==
    [][(/\ store.exists /\ store'.exists
        /\ store.step_details # << >>
        /\ Len(store'.step_details) = Len(store.step_details)
        /\ store'.intent = store.intent) =>
           \A i \in DOMAIN store.step_details :
              \/ store'.step_details[i].status = store.step_details[i].status
              \/ << store.step_details[i].status,
                    store'.step_details[i].status >> \in StepMoves]_vars

\* the positions of the events of type t on the queue of run r
EventsOf(r, t) == { i \in DOMAIN queue[r] : queue[r][i].type = t }

\* the events of type t of run r are the increments 1..k of the worker, in
\* the order of production, all after the event at position `from` and
\* before the first event of type `nxt`
IncrementsEmitted(r, t, k, nxt) ==
    /\ Cardinality(EventsOf(r, t)) = k
    /\ \A i \in EventsOf(r, t) :
          /\ queue[r][i].n = 1 + Cardinality({ j \in EventsOf(r, t) : j < i })
          /\ \E j \in DOMAIN queue[r] : j < i /\ queue[r][j].type = "step_start"
          /\ \E j \in DOMAIN queue[r] : j > i /\ queue[r][j].type = nxt
          /\ \A j \in DOMAIN queue[r] :
                (j < i /\ queue[r][j].type = nxt) =>
                    (nxt = "step_complete" /\
                     \E h \in DOMAIN queue[r] :
                        j < h /\ h < i /\ queue[r][h].type = "step_start")

\* C25: in an execution whose workers all returned, the increments each
\* worker produced (sc[r].chunks of them) are emitted in the order of
\* production, each once, none dropped, after the step's step_start and
\* before the intent event (step 1) or the step's step_complete.
C25_IncrementsInOrder ==
    \A r \in Runs :
        (Finished(r) /\ sc[r].exc = "none" /\ sc[r].intent # "none") =>
            /\ IncrementsEmitted(r, "thinking", sc[r].chunks, "intent")
            /\ \A i \in EventsOf(r, "step_start") :
                  /\ queue[r][i].v = "report" =>
                        IncrementsEmitted(r, "report_chunk", sc[r].chunks,
                                          "step_complete")
                  /\ queue[r][i].v = "answer" =>
                        IncrementsEmitted(r, "chat_chunk", sc[r].chunks,
                                          "step_complete")

C27_EveryWaitBounded ==
    \A r \in Runs : Active(r) ~> Finished(r)

\* what get-status finds in the record for the emitted event e: the saved
\* series, news list or forecast of a data event, the completed status of
\* the step of a step_complete event
StoredFor(e) ==
    CASE e.type = "data" /\ e.v = "time_series_original" ->
            store.time_series_original # << >>
      [] e.type = "data" /\ e.v = "news" -> store.news_list # << >>
      [] e.type = "data" /\ e.v = "time_series_full" -> store.prediction_done
      [] e.type = "step_complete" ->
            /\ e.step \in DOMAIN store.step_details
            /\ store.step_details[e.step].status = "completed"
      [] OTHER -> TRUE

\* C28: the session record is never behind the event stream: once a data
\* event or a step_complete event has been emitted, the result or the step
\* status it announces is already stored in the record.
C28_RecordNotBehindStream ==
    \A r \in Runs :
        store.exists =>
            \A i \in DOMAIN queue[r] : StoredFor(queue[r][i])

\* C29: each emitted step_start(k) is followed, before the `done` event of
\* the run, by step_complete(k) or by an `error` event.
C29_StartedStepsClosedBeforeDone ==
    \A r \in Runs :
        \A d \in DOMAIN queue[r] :
            queue[r][d].type = "done" =>
                \A i \in 1..(d - 1) :
                    queue[r][i].type = "step_start" =>
                        \E j \in (i + 1)..(d - 1) :
                            \/ /\ queue[r][j].type = "step_complete"
                               /\ queue[r][j].step = queue[r][i].step
                            \/ queue[r][j].type = "error"

\* C30: the anomaly zones saved and emitted for a task are a function of
\* that task's own series and configuration only: they are the zones computed
\* from its series, whatever another task of the same region (or another
\* task without a matched region) did before.
C30_ZonesOfOwnSeries ==
    \A t \in ZoneTasks :
        zone_task[t].pc = "done" =>
            zone_task[t].zones = compute_zones(zone_task[t].series)

\* C31: an entry of the per-region zone cache is served for at most 12 hours
\* after its zones were computed: taking zones from the cache does not
\* extend the entry's lifetime, so no entry holds zones older than 12 hours.
C31_CacheEntryAtMostTwelveHours ==
    \A c \in Regions :
        zone_cache[c].zones # << >> => zone_cache[c].age < ZoneTicksPerWindow

\* C32: whenever the forecast flow has left step 3 (normally, through a
\* structural failure, or through an exception raised between the creation
\* of the fetch tasks and their await) no fetch task it created is still
\* running: each has been awaited or cancelled.
C32_NoFetchTaskLeftRunning ==
    \A r \in Runs :
        Finished(r) =>
            \A t \in DOMAIN tasks[r] : tasks[r][t] # "running"

\* enrich_point executions in progress
InProgress == { i \in DOMAIN enrich.pc : enrich.pc[i] = "running" }

\* C33: during change-point enrichment at most 5 enrich_point executions
\* are in progress at any moment, for any number of change points.
C33_AtMostFiveInProgress == Cardinality(InProgress) <= 5

C33_Witness ==
    /\ Cardinality(InProgress) = 5
    /\ \E i \in DOMAIN enrich.pc : enrich.pc[i] = "waiting"
    /\ \E i \in DOMAIN enrich.pc : enrich.pc[i] = "done"

\* C34: among the threshold-qualified (non-fallback) points returned by
\* detect_change_points no two have indices within 2 of each other, also
\* when neighbouring scores are equal.
C34_QualifiedPointsApart ==
    Returned =>
        \A k \in DOMAIN call.ret : \A l \in DOMAIN call.ret :
            (k # l /\ ~call.ret[k].is_fallback /\ ~call.ret[l].is_fallback) =>
                Abs(call.ret[k].index - call.ret[l].index) > 2

Clustered == call.fn = "adaptive_clustering" /\ call.done

\* C35: every zone returned by adaptive_clustering spans at most
\* max_zone_days points, contains at least one point whose score exceeds
\* t_high, and consists only of points whose score exceeds t_low.
C35_ZoneWithinDurationAndThresholds ==
    Clustered =>
        \A k \in DOMAIN call.ret :
            LET z == call.ret[k]
                q == call.args.scores
            IN  /\ 0 <= z.start_idx /\ z.start_idx <= z.end_idx
                /\ z.end_idx < Len(q)
                /\ z.end_idx - z.start_idx + 1 <= call.args.max_zone_days
                /\ \E i \in z.start_idx..z.end_idx : 100 * q[i + 1] > t_high(q)
                /\ \A i \in z.start_idx..z.end_idx : 100 * q[i + 1] > t_low(q)

C35_Witness ==
    /\ Clustered /\ Len(call.ret) = 2
    /\ call.args.max_zone_days = 3
    /\ call.ret[1].end_idx - call.ret[1].start_idx = 2
    /\ call.ret[2].start_idx < call.ret[2].end_idx
    /\ \E i \in call.ret[1].start_idx..call.ret[1].end_idx :
          call.args.scores[i + 1] = 700

\* C36: the zones returned by one adaptive_clustering call are pairwise
\* non-overlapping: no point of the series belongs to two zones, also when
\* a zone was cut off by the maximum duration and the next grows backward.
C36_ZonesDisjoint ==
    Clustered =>
        \A k \in DOMAIN call.ret : \A l \in DOMAIN call.ret :
            k < l => call.ret[k].end_idx < call.ret[l].start_idx

\* C37: the Signal Engine never raises on degenerate input: for an empty
\* series, a single-point series, a constant series or a series of too few
\* points, generate_zones returns a (possibly empty) list.
C37_NeverRaisesOnDegenerateInput ==
    (call.fn = "generate_zones" /\ call.done) => call.ret.raised = "none"

\* C38: the confidence of a point returned by detect_change_points takes
\* only two values: 0.99 for every threshold-qualified point and 0.5 for a
\* fallback point.
C38_ConfidenceTwoValues ==
    Returned =>
        \A k \in DOMAIN call.ret :
            call.ret[k].confidence = IF call.ret[k].is_fallback THEN 50 ELSE 99

C38_Witness ==
    /\ Returned /\ call.args.threshold = 13 /\ Len(call.ret) >= 2
    /\ \A k \in DOMAIN call.ret :
          ~call.ret[k].is_fallback /\ call.ret[k].confidence = 99

====
